---- MODULE Spec2Model ----
(***************************************************************************)
(* Edge-agent data plane of hochkofler/ifascada.                           *)
(*                                                                         *)
(* Part I   store-and-forward publisher (BufferedMqttPublisher over the    *)
(*          SQLiteBuffer table offline_buffer and an MqttPublisherClient). *)
(* Part II  automation engine (AutomationEngine: build_map, reload,        *)
(*          handle_event, evaluate_trigger).                               *)
(* Part III remote configuration (ConfigManager::run_loop).                *)
(* Part IV  Modbus RTU shared serial ports (SHARED_PORTS, connect, poll).  *)
(* Part V   Tag aggregate status and quality, and its stored form.         *)
(* Part VI  the config topic on its way from the broker to run_loop        *)
(*          (MqttClient's event loop, ConfigManager::init).                *)
(* Part VII device manager and device actors (DeviceManager::start_devices *)
(*          and stop_all, DeviceActor::run).                               *)
(* Part VIII tag executor (TagExecutor::execute, connect, reconnect).      *)
(* Part IX  RS232 driver and its ConnectionState (RS232Connection).        *)
(* Part X   printing (PrintingActionExecutor, BatchManager, the print-job  *)
(*          channel and PrinterManager).                                   *)
(* Part XI  composite event bus (CompositeEventPublisher::publish).        *)
(* Part XII the MQTT client's broadcast channel under a burst, and the     *)
(*          loops of its receivers (run_loop, CommandListener::start).     *)
(*                                                                         *)
(* The parts share no state: each specification moves the variables of its *)
(* parts and leaves the others as Init set them.                           *)
(***************************************************************************)
EXTENDS Integers, Sequences, FiniteSets, TLC

(***************************************************************************)
(* Bounds of the model.                                                    *)
(***************************************************************************)
\* number of EventPublisher::publish calls made on the store-and-forward publisher
MaxEvents == 2
\* the wall clock read by strftime('%s','now') takes the values 0..MaxClock
MaxClock == 1
\* the `count` of a ConsecutiveValues trigger takes the values 1..MaxCount
MaxCount == 2
\* number of TagValueUpdated events handed to AutomationEngine::handle_event
MaxTagEvents == 4
\* number of messages ConfigManager::run_loop receives
MaxConfigMsgs == 3
\* number of PUBLISH packets the broker sends on the config topic
MaxPublishes == 3
\* number of times a device refuses to connect
MaxFails == 1
\* number of items a batch session holds
MaxBatch == 2
\* capacity of the print-job channel (mpsc::channel(32) in the agent)
QueueCap == 2
\* number of events published on the composite event bus
MaxBusEvents == 3
\* number of messages the event loop sends into the broadcast channel
MaxBurst == 4
\* capacity of the broadcast channel (broadcast::channel(250) in the client)
ChannelCap == 2

(***************************************************************************)
(* Program constants.                                                      *)
(***************************************************************************)
\* buffer.dequeue_batch(50)
BatchLimit == 50

VARIABLES
    sfConnected,  \* MqttPublisherClient::is_connected() (last known session state)
    sfBrokerUp,   \* whether MqttPublisherClient::publish_bytes returns Ok
    sfDbOk,       \* whether the sqlx queries on offline_buffer return Ok
    sfClock,      \* wall clock, in seconds
    sfNextEv,     \* number of the next event handed to publish()
    sfBuffer,     \* rows of table offline_buffer
    sfPc,         \* flusher task: "sleep" (in tokio::time::sleep) or "flush" (in the for loop)
    sfBatch,      \* flusher task: rows of the dequeued batch not yet attempted
    sfRowResult,  \* flusher task: how the last row attempt of this batch ended
    sfBroker,     \* what the broker received, in order of first receipt
    sfLast        \* the last publish() call: the event's kind and what the call returned

sfVars == <<sfConnected, sfBrokerUp, sfDbOk, sfClock, sfNextEv, sfBuffer, sfPc,
            sfBatch, sfRowResult, sfBroker, sfLast>>

VARIABLES
    autoMap,      \* AutomationEngine.automations: tag id -> list of ActiveAutomation
    evIdx,        \* handle_event: 0 when no call holds the map's mutex, else the
                  \* place in the tag's list of the automation evaluated next
    evTag,        \* handle_event: tag_id of the event being handled
    evValue,      \* handle_event: value of the event being handled
    evCount,      \* number of events handed to handle_event so far
    rlPc,         \* reload: "idle", or "locking" (map built, waiting for the mutex)
    rlNew,        \* reload: new_map
    rlDiscarded   \* whether the last reload replaced a map holding a counter above 0

autoVars == <<autoMap, evIdx, evTag, evValue, evCount, rlPc, rlNew, rlDiscarded>>

VARIABLES
    cfgLast,      \* ConfigManager.last_config_payload
    cfgFile,      \* contents of config/last_known.json
    cfgVersion,   \* ConfigManager.config_version
    cfgAuto,      \* ids of the tags whose automations the engine was last loaded with
    cfgDevRepo,   \* ids of the devices in the device repository
    cfgTagRepo,   \* ids of the tags in the tag repository
    cfgActors,    \* ids of the devices whose actor runs
    cfgLog,       \* how often the manager wrote the file, wrote to a repository,
                  \* reloaded the automations, called stop_all and start_devices, acked
    cfgMsg,       \* the last message run_loop received
    cfgHandled,   \* number of messages run_loop received so far
    cfgAlive,     \* whether the run_loop task still runs
    cfgDbOk,      \* whether the repositories' calls return Ok
    cfgFsOk       \* whether tokio::fs::write returns Ok

cfgVars == <<cfgLast, cfgFile, cfgVersion, cfgAuto, cfgDevRepo, cfgTagRepo, cfgActors, cfgLog,
             cfgMsg, cfgHandled, cfgAlive, cfgDbOk, cfgFsOk>>

VARIABLES
    mbPc,         \* each Modbus driver's place: "idle", in connect ("opening",
                  \* "registering"), "ready" (connected, between polls), "polling"
    mbState,      \* ModbusDeviceDriver.state of each driver
    mbCtx,        \* ModbusDeviceDriver.context of each driver
    mbNew,        \* connect: the context just made, not yet in the registry
    mbPorts,      \* SHARED_PORTS: port key -> context its weak reference points to
    mbOpen        \* the contexts whose SerialStream is open

mbVars == <<mbPc, mbState, mbCtx, mbNew, mbPorts, mbOpen>>

VARIABLES
    tgTag,        \* a Tag aggregate: its runtime fields, and how the object was built
    tgRow         \* the tag's row in table tags: its runtime columns

tagVars == <<tgTag, tgRow>>

VARIABLES
    subPc,        \* ConfigManager::init: which of its calls is next; after them,
                  \* init has returned, and then run_loop runs
    subRx,        \* whether the broadcast receiver of the config manager exists
    subTopics,    \* MqttClient.subscriptions
    subRequest,   \* whether a SUBSCRIBE for the config topic is on its way
    subSubscribed,\* whether the broker has taken a SUBSCRIBE of this connection
    subWire,      \* PUBLISH packets sent by the broker, not yet polled
    subQueue,     \* messages waiting in the config manager's receiver
    subDropped,   \* messages tx.send found no receiver of the config manager for
    subHandled,   \* messages run_loop has received
    subSent       \* number of PUBLISH packets the broker has sent

subVars == <<subPc, subRx, subTopics, subRequest, subSubscribed, subWire, subQueue,
             subDropped, subHandled, subSent>>

VARIABLES
    dmActors,     \* DeviceManager.actors: device id -> task of its handle
    daDevice,     \* each task: the device of the actor it runs
    daPc,         \* each task: "none" (no actor), "start" (first connect),
                  \* "select" (waiting for the tick), "poll", "batch" (going
                  \* through the results of a poll)
    daConnected,  \* each task: driver.is_connected(), the driver holds its port
    daAbort,      \* each task: JoinHandle::abort was called and the future is
                  \* not yet dropped
    daTags,       \* each task: the actor's tags
    daBatch,      \* each task: the results of the poll still to go through
    daEvents,     \* each task: the events handed to the publisher since the tick
    daFails,      \* each task: how often connect has failed
    daDone        \* each task: the batch entry it went through last since the tick

actorVars == <<dmActors, daDevice, daPc, daConnected, daAbort, daTags, daBatch, daEvents,
               daFails, daDone>>

VARIABLES
    exPc,         \* the TagExecutor: "start" (first connect), "tick" (waiting for
                  \* the tick), "backoff" (asleep in reconnect)
    exConnected,  \* whether its driver is connected
    exTag,        \* its tag
    exAttempts,   \* reconnect_attempts
    exSleep,      \* seconds of the sleep of reconnect under way
    exEvent,      \* the event it published last
    exFails,      \* how often connect has failed
    exMode,       \* the update mode of its tag, "none" before execute
    exLate,       \* whether tag.last_update is None or more than timeout_ms() back
    exTicks,      \* parity of the number of ticks its loop has taken
    exEpisode     \* TagDisconnected events published since the tag's last value, and
                  \* TagExecutorError events published since the last connect that succeeded

execVars == <<exPc, exConnected, exTag, exAttempts, exSleep, exEvent, exFails, exMode, exLate,
              exTicks, exEpisode>>

VARIABLES
    rsState,      \* RS232Connection.state of each driver
    rsPort,       \* whether RS232Connection.port is Some
    rsReturned    \* what the driver's last call returned

rsVars == <<rsState, rsPort, rsReturned>>

VARIABLES
    bmBatch,      \* batch_managers: the session's BatchManager.current_batch, if it is in the map
    amMutex,      \* who holds the Mutex of AutomationEngine.automations, or "free"
    amReload,     \* AutomationEngine::reload: "idle", or "lock" while it awaits the Mutex
    pxPc,         \* each caller of the executor: "idle", or "send_job" in print_queue.send
    pxJob,        \* the job the caller hands to send_job
    pxCall,       \* the last call each caller made on the executor: its action, the value it
                  \* gave to add_item, whether it found the session, and the items it met
    pxOut,        \* what that call published and enqueued so far, in order
    pqQueue,      \* the jobs in the print-job channel
    pqSenders,    \* whether a Sender of the print-job channel is alive
    pmPc,         \* PrinterManager::run: "connect_loop", "sleep", "recv", "retry" or "done"
    pmNext,       \* where connect_loop returns to
    pmJob,        \* the job run holds while it reconnects
    pmConnected,  \* NetworkPrinter.stream.is_some()
    pmLast,       \* the job run dealt with last: its send_commands calls, and whether one returned Ok
    prReachable   \* whether the printer accepts a TCP connection

printVars == <<bmBatch, amMutex, amReload, pxPc, pxJob, pxCall, pxOut, pqQueue, pqSenders,
               pmPc, pmNext, pmJob, pmConnected, pmLast, prReachable>>

VARIABLES
    cpCalls,      \* number of CompositeEventPublisher::publish calls made
    cpIdx,        \* position of the running call in `publishers`, 0 when no call runs
    cpDelivered,  \* what each registered publisher was handed, and what it returned
    cpReturned    \* what each finished call returned

busVars == <<cpCalls, cpIdx, cpDelivered, cpReturned>>

VARIABLES
    bcQueue,      \* each broadcast receiver: the messages it has not received yet
    bcLagged,     \* each receiver: whether the channel overwrote a message it had not received
    bcRunning,    \* each receiver: whether the loop of its task still runs
    bcLast,       \* each receiver: what its last rx.recv() returned
    bcSent        \* number of messages the event loop has sent into the channel

lagVars == <<bcQueue, bcLagged, bcRunning, bcLast, bcSent>>

vars == <<sfVars, autoVars, cfgVars, mbVars, tagVars, subVars, actorVars, execVars, rsVars, printVars, busVars, lagVars>>

\* what the store-and-forward publisher never touches
nonSfVars == <<autoVars, cfgVars, mbVars, tagVars, subVars, actorVars, execVars, rsVars, printVars, busVars, lagVars>>
\* what the automation engine never touches
nonAutoVars == <<sfVars, cfgVars, mbVars, tagVars, subVars, actorVars, execVars, rsVars, printVars, busVars, lagVars>>
\* what the configuration manager never touches
nonCfgVars == <<sfVars, autoVars, mbVars, tagVars, subVars, actorVars, execVars, rsVars, printVars, busVars, lagVars>>
\* what the Modbus drivers never touch
nonMbVars == <<sfVars, autoVars, cfgVars, tagVars, subVars, actorVars, execVars, rsVars, printVars, busVars, lagVars>>
\* what the Tag aggregate never touches
nonTagVars == <<sfVars, autoVars, cfgVars, mbVars, subVars, actorVars, execVars, rsVars, printVars, busVars, lagVars>>
\* what the config subscription never touches
nonSubVars == <<sfVars, autoVars, cfgVars, mbVars, tagVars, actorVars, execVars, rsVars, printVars, busVars, lagVars>>
\* what the device manager and its actors never touch
nonActorVars == <<sfVars, autoVars, cfgVars, mbVars, tagVars, subVars, execVars, rsVars, printVars, busVars, lagVars>>
\* what the tag executor never touches
nonExecVars == <<sfVars, autoVars, cfgVars, mbVars, tagVars, subVars, actorVars, rsVars, printVars, busVars, lagVars>>

\* the variables the RS232 drivers leaves alone
nonRsVars == <<sfVars, autoVars, cfgVars, mbVars, tagVars, subVars, actorVars, execVars, printVars, busVars, lagVars>>

\* the variables the executor, the batch manager and the printer manager leaves alone
nonPrintVars == <<sfVars, autoVars, cfgVars, mbVars, tagVars, subVars, actorVars, execVars, rsVars, busVars, lagVars>>

\* the variables the composite event bus leaves alone
nonBusVars == <<sfVars, autoVars, cfgVars, mbVars, tagVars, subVars, actorVars, execVars, rsVars, printVars, lagVars>>

\* the variables the broadcast channel leaves alone
nonLagVars == <<sfVars, autoVars, cfgVars, mbVars, tagVars, subVars, actorVars, execVars, rsVars, printVars, busVars>>

(***************************************************************************)
(* Helpers on sequences and sets.                                          *)
(***************************************************************************)
Max(S) == CHOOSE x \in S : \A y \in S : y <= x

Min2(a, b) == IF a <= b THEN a ELSE b

\* all orderings of the finite set S that are ascending in created_at
OrderedBy(S) ==
    {s \in [1..Cardinality(S) -> S] :
        /\ \A i, j \in 1..Cardinality(S) : i # j => s[i] # s[j]
        /\ \A i, j \in 1..Cardinality(S) : i < j => s[i].created_at <= s[j].created_at}

(***************************************************************************)
(* DomainEvent kinds and BufferedMqttPublisher::create_payload.            *)
(***************************************************************************)
EventKinds == {"TagValueUpdated", "ReportCompleted", "AgentHeartbeat", "TagConnected"}

\* create_payload returns Some((topic, payload)) for these kinds, None for the rest
HasWireMapping(kind) == kind \in {"TagValueUpdated", "ReportCompleted"}

(***************************************************************************)
(* SQLiteBuffer.                                                           *)
(***************************************************************************)
\* INSERT INTO offline_buffer: id INTEGER PRIMARY KEY takes max(rowid)+1 (1 in an
\* empty table), created_at takes strftime('%s','now')
NewRowId(rows) == IF rows = {} THEN 1 ELSE Max({r.id : r \in rows}) + 1

enqueue(rows, ev, now) == rows \cup {[id |-> NewRowId(rows), ev |-> ev, created_at |-> now]}

\* SELECT id, topic, payload FROM offline_buffer ORDER BY created_at ASC LIMIT ?
\* the possible results: rows with equal created_at come in any order
dequeue_batch(rows, limit) ==
    {SubSeq(s, 1, Min2(limit, Len(s))) : s \in OrderedBy(rows)}

\* mutant of delete: the statement removes nothing
deleteNothing(rows, id) == rows

\* DELETE FROM offline_buffer WHERE id = ?
delete(rows, id) == {r \in rows : r.id # id}

\* SELECT COUNT(*) FROM offline_buffer
count(rows) == Cardinality(rows)

(***************************************************************************)
(* What the broker received.                                               *)
(***************************************************************************)
Received(log, ev) == \E i \in DOMAIN log : log[i].ev = ev

\* the broker's log keeps the first receipt of each event (QoS 1 redeliveries
\* of the same buffered row are duplicates of it)
Deliver(log, ev, via) ==
    IF Received(log, ev) THEN log ELSE Append(log, [ev |-> ev, via |-> via])

NoCall == [kind |-> "none", result |-> "none"]

InitSF ==
    /\ sfConnected = FALSE
    /\ sfBrokerUp = TRUE
    /\ sfDbOk = TRUE
    /\ sfClock = 0
    /\ sfNextEv = 1
    /\ sfBuffer = {}
    /\ sfPc = "sleep"
    /\ sfBatch = <<>>
    /\ sfRowResult = "none"
    /\ sfBroker = <<>>
    /\ sfLast = NoCall

(***************************************************************************)
(* BufferedMqttPublisher::publish                                          *)
(***************************************************************************)
\* self.buffer.enqueue(&topic, &payload).await?  the query's error is returned
EnqueueOrReturn(kind) ==
    IF sfDbOk
    THEN /\ sfBuffer' = enqueue(sfBuffer, sfNextEv, sfClock)
         /\ sfLast' = [kind |-> kind, result |-> "ok"]
    ELSE /\ sfBuffer' = sfBuffer
         /\ sfLast' = [kind |-> kind, result |-> "buffer_error"]

\* the event has a wire mapping and the client reports offline: enqueue, return
PublishOffline(kind) ==
    /\ HasWireMapping(kind)
    /\ ~sfConnected
    /\ EnqueueOrReturn(kind)
    /\ sfBroker' = sfBroker

\* mutant of PublishOnline: the broker's error is returned to the caller
PublishOnlinePropagating(kind) ==
    /\ HasWireMapping(kind)
    /\ sfConnected
    /\ sfBuffer' = sfBuffer
    /\ IF sfBrokerUp
       THEN /\ sfBroker' = Deliver(sfBroker, sfNextEv, "direct")
            /\ sfLast' = [kind |-> kind, result |-> "ok"]
       ELSE /\ sfBroker' = sfBroker
            /\ sfLast' = [kind |-> kind, result |-> "broker_error"]

\* the event has a wire mapping and the client reports online: publish_bytes,
\* and enqueue when it fails
PublishOnline(kind) ==
    /\ HasWireMapping(kind)
    /\ sfConnected
    /\ IF sfBrokerUp
       THEN /\ sfBroker' = Deliver(sfBroker, sfNextEv, "direct")
            /\ sfBuffer' = sfBuffer
            /\ sfLast' = [kind |-> kind, result |-> "ok"]
       ELSE /\ sfBroker' = sfBroker
            /\ EnqueueOrReturn(kind)

\* no wire mapping: a heartbeat is published best effort at QoS 0 and never
\* buffered, any other event is skipped
PublishUnmapped(kind) ==
    /\ ~HasWireMapping(kind)
    /\ sfBroker' = IF kind = "AgentHeartbeat" /\ sfBrokerUp
                   THEN Deliver(sfBroker, sfNextEv, "heartbeat")
                   ELSE sfBroker
    /\ sfBuffer' = sfBuffer
    /\ sfLast' = [kind |-> kind, result |-> "ok"]

publish(kind) ==
    /\ sfNextEv <= MaxEvents
    /\ \/ PublishOffline(kind)
       \/ PublishOnline(kind)
       \/ PublishUnmapped(kind)
    /\ sfNextEv' = sfNextEv + 1
    /\ UNCHANGED <<sfConnected, sfBrokerUp, sfDbOk, sfClock, sfPc, sfBatch, sfRowResult>>
    /\ UNCHANGED nonSfVars

Publish == \E kind \in EventKinds : publish(kind)

(***************************************************************************)
(* BufferedMqttPublisher::start_flusher                                    *)
(***************************************************************************)
\* one cadence: the sleep returns; is_connected, count, dequeue_batch(50)
FlusherWake ==
    /\ sfPc = "sleep"
    /\ IF sfConnected /\ sfDbOk /\ count(sfBuffer) > 0
       THEN \E rows \in dequeue_batch(sfBuffer, BatchLimit) :
                /\ sfBatch' = rows
                /\ sfPc' = IF rows = <<>> THEN "sleep" ELSE "flush"
                /\ sfRowResult' = "none"
       ELSE UNCHANGED <<sfBatch, sfPc, sfRowResult>>
    /\ UNCHANGED <<sfConnected, sfBrokerUp, sfDbOk, sfClock, sfNextEv, sfBuffer,
                   sfBroker, sfLast>>
    /\ UNCHANGED nonSfVars

\* Ok(_): the row's publish succeeded: delete(id), whose error is only logged
FlushRowSent(row) ==
    /\ sfBroker' = Deliver(sfBroker, row.ev, "flush")
    /\ sfBuffer' = IF sfDbOk THEN delete(sfBuffer, row.id) ELSE sfBuffer
    /\ sfBatch' = Tail(sfBatch)
    /\ sfPc' = IF Tail(sfBatch) = <<>> THEN "sleep" ELSE "flush"
    /\ sfRowResult' = "sent"

\* mutant of FlushRowFailed: the failed row is dropped and the loop goes on
FlushRowFailedSkipping(row) ==
    /\ sfBroker' = sfBroker
    /\ sfBuffer' = delete(sfBuffer, row.id)
    /\ sfBatch' = Tail(sfBatch)
    /\ sfPc' = IF Tail(sfBatch) = <<>> THEN "sleep" ELSE "flush"
    /\ sfRowResult' = "failed"

\* Err(e): the row's publish failed: break, wait for the next cycle
FlushRowFailed(row) ==
    /\ sfBroker' = sfBroker
    /\ sfBuffer' = sfBuffer
    /\ sfBatch' = <<>>
    /\ sfPc' = "sleep"
    /\ sfRowResult' = "failed"

\* one iteration of the for loop over the batch
FlusherRow ==
    /\ sfPc = "flush"
    /\ sfBatch # <<>>
    /\ IF sfBrokerUp THEN FlushRowSent(Head(sfBatch)) ELSE FlushRowFailed(Head(sfBatch))
    /\ UNCHANGED <<sfConnected, sfBrokerUp, sfDbOk, sfClock, sfNextEv, sfLast>>
    /\ UNCHANGED nonSfVars

(***************************************************************************)
(* Environment of the publisher.                                           *)
(***************************************************************************)
\* the MQTT event loop stores the session state (ConnAck, Disconnect, error)
ConnectionFlip ==
    /\ sfConnected' = ~sfConnected
    /\ UNCHANGED <<sfBrokerUp, sfDbOk, sfClock, sfNextEv, sfBuffer, sfPc, sfBatch,
                   sfRowResult, sfBroker, sfLast>>
    /\ UNCHANGED nonSfVars

\* publish_bytes starts or stops failing
BrokerFlip ==
    /\ sfBrokerUp' = ~sfBrokerUp
    /\ UNCHANGED <<sfConnected, sfDbOk, sfClock, sfNextEv, sfBuffer, sfPc, sfBatch,
                   sfRowResult, sfBroker, sfLast>>
    /\ UNCHANGED nonSfVars

\* the queries on the buffer database start or stop failing
DbFlip ==
    /\ sfDbOk' = ~sfDbOk
    /\ UNCHANGED <<sfConnected, sfBrokerUp, sfClock, sfNextEv, sfBuffer, sfPc, sfBatch,
                   sfRowResult, sfBroker, sfLast>>
    /\ UNCHANGED nonSfVars

\* the wall clock advances, or is set back (it is not monotonic)
WallClock ==
    /\ \E t \in 0..MaxClock : t # sfClock /\ sfClock' = t
    /\ UNCHANGED <<sfConnected, sfBrokerUp, sfDbOk, sfNextEv, sfBuffer, sfPc, sfBatch,
                   sfRowResult, sfBroker, sfLast>>
    /\ UNCHANGED nonSfVars

NextSF ==
    \/ Publish
    \/ FlusherWake
    \/ FlusherRow
    \/ ConnectionFlip
    \/ BrokerFlip
    \/ DbFlip
    \/ WallClock

\* the flusher is a spawned task that the runtime keeps scheduling: each of its
\* steps is taken when it stays possible. The wall clock is left out: what is
\* delivered does not depend on created_at.
NextLiveSF ==
    \/ Publish
    \/ FlusherWake
    \/ FlusherRow
    \/ ConnectionFlip
    \/ BrokerFlip
    \/ DbFlip

(***************************************************************************)
(* Part II: AutomationEngine                                               *)
(***************************************************************************)
\* domain::automation::Operator
Operators == {"Equal", "NotEqual", "LessOrEqual", "GreaterOrEqual", "Greater", "Less"}

\* AutomationConfig with a TriggerConfig::ConsecutiveValues trigger
Rule(name, k, op, target) ==
    [name |-> name, count |-> k, operator |-> op, target_value |-> target]

\* TagConfig, as far as the engine reads it; primary is value_schema.primary,
\* "none" when the tag has no value_schema
TagCfg(id, vt, primary, autos) ==
    [id |-> id, value_type |-> vt, primary |-> primary, automations |-> autos]

\* TagId::new rejects the empty id and ids with other characters than
\* alphanumerics, '_', '-' and '/'
InvalidTagIds == {"", "scale 1"}
ValidTagId(id) == id \notin InvalidTagIds

\* the tag lists the engine is built from and reloaded with
AutoConfigs ==
    {<<TagCfg("T1", "Simple", "none",
              <<Rule("zeros", k, "Equal", 0), Rule("loaded", 1, "Greater", 0)>>),
       TagCfg("T2", "Composite", "weight", <<>>)>> : k \in 1..MaxCount}
    \cup
    {<<TagCfg("T1", "Simple", "none", <<>>),
       TagCfg("T2", "Composite", "weight", <<Rule("empty", k, "LessOrEqual", 0)>>),
       TagCfg("scale 1", "Simple", "none", <<Rule("zeros", 1, "NotEqual", 0)>>)>> :
           k \in 1..MaxCount}

\* the tag list the agent starts with
BootConfig ==
    <<TagCfg("T1", "Simple", "none",
             <<Rule("zeros", 1, "Equal", 0), Rule("loaded", 1, "Greater", 0)>>),
      TagCfg("T2", "Composite", "weight", <<>>)>>

\* values of TagValueUpdated events: JSON numbers, JSON objects with one
\* numeric field, and a JSON string
JsonNumber(n) == [kind |-> "number", key |-> "none", n |-> n]
JsonObject(key, n) == [kind |-> "object", key |-> key, n |-> n]
JsonString == [kind |-> "string", key |-> "none", n |-> 0]
EventValues ==
    {JsonNumber(0), JsonNumber(1), JsonObject("weight", 0), JsonObject("weight", 1),
     JsonObject("value", 1), JsonString}
EventTags == {"T1", "T2"}

\* TriggerState::default() on a trigger that remembers one match already
StaleTriggerState == [consecutive_matches |-> 1]

\* TriggerState::default()
DefaultTriggerState == [consecutive_matches |-> 0]

\* ActiveAutomation built for one AutomationConfig of a tag. run and fired
\* observe the binding: the matching events in a row it has seen up to now,
\* and how often it fired during them
NewActive(tag, cfg) ==
    [config |-> cfg, state |-> DefaultTriggerState, value_type |-> tag.value_type,
     primary |-> tag.primary, run |-> 0, fired |-> 0]

EmptyMap == <<>>

Insert(map, k, v) == [x \in DOMAIN map \cup {k} |-> IF x = k THEN v ELSE map[x]]

RECURSIVE build_from(_, _)
build_from(tags, map) ==
    IF tags = <<>> THEN map
    ELSE LET tag == Head(tags)
         IN  IF tag.automations = <<>> \/ ~ValidTagId(tag.id)
             THEN build_from(Tail(tags), map)
             ELSE build_from(Tail(tags),
                             Insert(map, tag.id,
                                    [i \in DOMAIN tag.automations |->
                                        NewActive(tag, tag.automations[i])]))

\* AutomationEngine::build_map
build_map(tags) == build_from(tags, EmptyMap)

\* evaluate_trigger, step 1: the numeric value of the event
NumVal(a, value) ==
    IF a.value_type = "Simple" /\ value.kind = "number" THEN value.n
    ELSE IF a.value_type = "Composite" /\ value.kind = "object"
         THEN IF value.key = (IF a.primary = "none" THEN "value" ELSE a.primary)
              THEN value.n ELSE 0
         ELSE 0

\* evaluate_trigger, step 2: the values are whole numbers, so |x - t| < EPSILON
\* is x = t
MatchCondition(op, x, t) ==
    CASE op = "Equal" -> x = t
      [] op = "NotEqual" -> x # t
      [] op = "LessOrEqual" -> x <= t
      [] op = "GreaterOrEqual" -> x >= t
      [] op = "Greater" -> x > t
      [] op = "Less" -> x < t

\* evaluate_trigger: the automation after the call; field fire is the result
evaluate_trigger(a, value) ==
    LET matched == MatchCondition(a.config.operator, NumVal(a, value), a.config.target_value)
        n == IF matched THEN a.state.consecutive_matches + 1 ELSE 0
        fire == n >= a.config.count
    IN  [a EXCEPT !.state = [consecutive_matches |-> IF fire THEN 0 ELSE n],
                  !.run = IF matched THEN a.run + 1 ELSE 0,
                  !.fired = IF matched THEN a.fired + (IF fire THEN 1 ELSE 0) ELSE 0]

InitAuto ==
    /\ autoMap = build_map(BootConfig)
    /\ evIdx = 0
    /\ evTag = "T1"
    /\ evValue = JsonNumber(0)
    /\ evCount = 0
    /\ rlPc = "idle"
    /\ rlNew = EmptyMap
    /\ rlDiscarded = FALSE

\* handle_event up to the lookup of the tag: the map's mutex is taken; a tag
\* without automations gives it back at once
HandleEventLock(tag, value) ==
    /\ evIdx = 0
    /\ evCount < MaxTagEvents
    /\ evCount' = evCount + 1
    /\ evTag' = tag
    /\ evValue' = value
    /\ evIdx' = IF tag \in DOMAIN autoMap THEN 1 ELSE 0
    /\ UNCHANGED <<autoMap, rlPc, rlNew, rlDiscarded>>
    /\ UNCHANGED nonAutoVars

HandleEvent == \E tag \in EventTags, value \in EventValues : HandleEventLock(tag, value)

\* handle_event, one turn of the for loop: evaluate_trigger and, when it
\* fires, execute_action(..).await, with the mutex held; after the last
\* automation the guard is dropped
HandleEventEvaluate ==
    /\ evIdx > 0
    /\ autoMap' = [autoMap EXCEPT ![evTag][evIdx] = evaluate_trigger(@, evValue)]
    /\ evIdx' = IF evIdx = Len(autoMap[evTag]) THEN 0 ELSE evIdx + 1
    /\ UNCHANGED <<evTag, evValue, evCount, rlPc, rlNew, rlDiscarded>>
    /\ UNCHANGED nonAutoVars

\* reload, line 81: the new map is built before the mutex is asked for
ReloadBuild(tags) ==
    /\ rlPc = "idle"
    /\ rlNew' = build_map(tags)
    /\ rlPc' = "locking"
    /\ UNCHANGED <<autoMap, evIdx, evTag, evValue, evCount, rlDiscarded>>
    /\ UNCHANGED nonAutoVars

Reload == \E tags \in AutoConfigs : ReloadBuild(tags)

\* a reload that does not wait for the mutex
MutexIgnored == TRUE

\* reload, line 82: lock().await returns when no handle_event holds the guard
MutexFree == evIdx = 0

HasCounter(map) ==
    \E t \in DOMAIN map : \E i \in DOMAIN map[t] : map[t][i].state.consecutive_matches > 0

\* reload, lines 82-83: lock().await returns and *guard = new_map
ReloadSwap ==
    /\ rlPc = "locking"
    /\ MutexFree
    /\ autoMap' = rlNew
    /\ rlDiscarded' = HasCounter(autoMap)
    /\ rlPc' = "idle"
    /\ rlNew' = EmptyMap
    /\ UNCHANGED <<evIdx, evTag, evValue, evCount>>
    /\ UNCHANGED nonAutoVars

NextAuto ==
    \/ HandleEvent
    \/ HandleEventEvaluate
    \/ Reload
    \/ ReloadSwap

(***************************************************************************)
(* Part III: ConfigManager                                                 *)
(***************************************************************************)
\* a payload: the bytes are told apart by name and form; the other fields are
\* what serde_json reads out of them. json: the bytes are a JSON object;
\* schema_ok: the object has what AgentConfig asks for besides `mqtt`;
\* tags_ok: every tag has the device_id and driver_config that
\* convert_config_to_tag expects
Blob(name, json, printer, mqtt, schema_ok, tags_ok, version, devices, tags) ==
    [name |-> name, form |-> "as sent", json |-> json, printer |-> printer,
     mqtt |-> mqtt, schema_ok |-> schema_ok, tags_ok |-> tags_ok,
     version |-> version, devices |-> devices, tags |-> tags]

\* Vec::new(), the first value of last_config_payload
EmptyPayload == Blob("", FALSE, "absent", FALSE, FALSE, TRUE, "", {}, {})

\* last_known.json before the first write
NoFile == Blob("no file", FALSE, "absent", FALSE, FALSE, TRUE, "", {}, {})

ConfigPayloads ==
    {EmptyPayload,
     Blob("not json", FALSE, "absent", FALSE, FALSE, TRUE, "", {}, {}),
     Blob("A", TRUE, "set", TRUE, TRUE, TRUE, "v1", {"D1"}, {"T1"}),
     Blob("B", TRUE, "null", TRUE, TRUE, TRUE, "v2", {}, {"T2"}),
     Blob("no mqtt", TRUE, "absent", FALSE, TRUE, TRUE, "v3", {"D1"}, {"T1"}),
     Blob("tag without device", TRUE, "absent", TRUE, TRUE, FALSE, "v4", {"D2"}, {"T3"})}

ConfigTopic == "scada/config/agent"
Topics == {ConfigTopic, "scada/cmd/agent"}

\* run_loop, lines 103-118: a null `printer` is removed and the object written
\* out again
Sanitize(p) ==
    IF p.json /\ p.printer = "null"
    THEN [p EXCEPT !.printer = "absent", !.form = "pretty"]
    ELSE p

\* run_loop, lines 121-134: `mqtt` is removed from what is saved
StripMqtt(p) ==
    IF p.json /\ p.mqtt THEN [p EXCEPT !.mqtt = FALSE, !.form = "pretty"] ELSE p

\* serde_json::from_slice::<AgentConfig>
Parses(p) == p.json /\ p.mqtt /\ p.schema_ok

\* a comparison that never finds two payloads equal
NeverDuplicate(last, payload) == FALSE

\* run_loop, line 85
IsDuplicate(last, payload) == last = payload

NoEffects ==
    [file_writes |-> 0, repo_writes |-> 0, reloads |-> 0, stops |-> 0, starts |-> 0,
     acks |-> 0]

NoMessage == [topic |-> "none", payload |-> EmptyPayload, duplicate |-> FALSE]

InitCfg ==
    /\ cfgLast = EmptyPayload
    /\ cfgFile = NoFile
    /\ cfgVersion = ""
    /\ cfgAuto = {}
    /\ cfgDevRepo = {}
    /\ cfgTagRepo = {}
    /\ cfgActors = {}
    /\ cfgLog = NoEffects
    /\ cfgMsg = NoMessage
    /\ cfgHandled = 0
    /\ cfgAlive = TRUE
    /\ cfgDbOk = TRUE
    /\ cfgFsOk = TRUE

\* handle_reload after the automation reload, with the repositories failing:
\* every save and find_by_agent is an Err; the Err of line 222 returns
ReloadWithoutDb(log) ==
    /\ cfgLog' = log
    /\ UNCHANGED <<cfgDevRepo, cfgTagRepo, cfgActors>>

\* handle_reload after the automation reload, with the repositories working:
\* devices and tags are saved, the ones no longer configured are deleted,
\* stop_all, and start_devices when there is a device
ReloadWithDb(config, log) ==
    /\ cfgDevRepo' = config.devices
    /\ cfgTagRepo' = config.tags
    /\ cfgActors' = config.devices
    /\ cfgLog' = [log EXCEPT
           !.repo_writes = @ + Cardinality(config.devices)
                             + Cardinality(cfgDevRepo \ config.devices)
                             + Cardinality(config.tags)
                             + Cardinality(cfgTagRepo \ config.tags),
           !.stops = @ + 1,
           !.starts = @ + (IF config.devices = {} THEN 0 ELSE 1)]

\* ConfigManager::handle_reload, and the ack of line 146 that follows each of
\* its returns; log is the effects up to the call
handle_reload(payload, log) ==
    IF ~Parses(payload)
    THEN /\ cfgLog' = [log EXCEPT !.acks = @ + 1]
         /\ UNCHANGED <<cfgVersion, cfgAuto, cfgDevRepo, cfgTagRepo, cfgActors, cfgAlive>>
    ELSE /\ cfgVersion' = payload.version
         /\ cfgAuto' = payload.tags
         /\ IF ~payload.tags_ok
            THEN \* convert_config_to_tag panics: the task ends, nothing is acked
                 /\ cfgAlive' = FALSE
                 /\ cfgDevRepo' = IF cfgDbOk THEN payload.devices ELSE cfgDevRepo
                 /\ cfgLog' = [log EXCEPT
                        !.reloads = @ + 1,
                        !.repo_writes = @ + (IF cfgDbOk
                            THEN Cardinality(payload.devices)
                                 + Cardinality(cfgDevRepo \ payload.devices)
                            ELSE 0)]
                 /\ UNCHANGED <<cfgTagRepo, cfgActors>>
            ELSE /\ cfgAlive' = cfgAlive
                 /\ IF cfgDbOk
                    THEN ReloadWithDb(payload, [log EXCEPT !.reloads = @ + 1, !.acks = @ + 1])
                    ELSE ReloadWithoutDb([log EXCEPT !.reloads = @ + 1, !.acks = @ + 1])

\* run_loop, one message received from the broadcast channel
ConfigMessage(topic, payload) ==
    /\ cfgAlive
    /\ cfgHandled < MaxConfigMsgs
    /\ cfgHandled' = cfgHandled + 1
    /\ cfgMsg' = [topic |-> topic, payload |-> payload,
                  duplicate |-> topic = ConfigTopic /\ IsDuplicate(cfgLast, payload)]
    /\ IF topic # ConfigTopic
       THEN UNCHANGED <<cfgLast, cfgFile, cfgVersion, cfgAuto, cfgDevRepo, cfgTagRepo,
                        cfgActors, cfgLog, cfgAlive>>
       ELSE IF IsDuplicate(cfgLast, payload)
       THEN /\ cfgLog' = [cfgLog EXCEPT !.acks = @ + 1]
            /\ UNCHANGED <<cfgLast, cfgFile, cfgVersion, cfgAuto, cfgDevRepo, cfgTagRepo,
                           cfgActors, cfgAlive>>
       ELSE /\ cfgLast' = payload
            /\ cfgFile' = IF cfgFsOk THEN StripMqtt(Sanitize(payload)) ELSE cfgFile
            /\ handle_reload(Sanitize(payload),
                             [cfgLog EXCEPT !.file_writes = @ + (IF cfgFsOk THEN 1 ELSE 0)])
    /\ UNCHANGED <<cfgDbOk, cfgFsOk>>
    /\ UNCHANGED nonCfgVars

RunLoop == \E topic \in Topics, payload \in ConfigPayloads : ConfigMessage(topic, payload)

\* the repositories' database starts or stops failing
CfgDbFlip ==
    /\ cfgDbOk' = ~cfgDbOk
    /\ UNCHANGED <<cfgLast, cfgFile, cfgVersion, cfgAuto, cfgDevRepo, cfgTagRepo, cfgActors,
                   cfgLog, cfgMsg, cfgHandled, cfgAlive, cfgFsOk>>
    /\ UNCHANGED nonCfgVars

\* writing the configuration file starts or stops failing
CfgFsFlip ==
    /\ cfgFsOk' = ~cfgFsOk
    /\ UNCHANGED <<cfgLast, cfgFile, cfgVersion, cfgAuto, cfgDevRepo, cfgTagRepo, cfgActors,
                   cfgLog, cfgMsg, cfgHandled, cfgAlive, cfgDbOk>>
    /\ UNCHANGED nonCfgVars

NextCfg ==
    \/ RunLoop
    \/ CfgDbFlip
    \/ CfgFsFlip

(***************************************************************************)
(* Part IV: Modbus RTU drivers on shared serial ports                      *)
(***************************************************************************)
\* the Modbus device drivers of the agent, one per device actor
Drivers == {"d1", "d2", "d3"}

\* ModbusDeviceConfig.port of each driver
ConfiguredPort == [d \in Drivers |-> CASE d = "d1" -> "COM3" [] d = "d2" -> "com3" [] d = "d3" -> "COM4"]

\* str::to_lowercase on the configured ports
to_lowercase(port) == CASE port = "COM3" -> "com3" [] port = "com3" -> "com3" [] port = "COM4" -> "com4"

\* port_key of connect
PortKey(d) == to_lowercase(ConfiguredPort[d])

PortKeys == {PortKey(d) : d \in Drivers}

\* Option::None for a context, and for a registry entry
NoContext == 0

\* the contexts some Arc still points to: a driver's `context` field or the
\* local `ctx` of a connect under way
LiveContexts == ({mbCtx[d] : d \in Drivers} \cup {mbNew[d] : d \in Drivers}) \ {NoContext}

\* Weak::upgrade of the registry entry of a port key
Upgrade(key) == IF mbPorts[key] \in LiveContexts THEN mbPorts[key] ELSE NoContext

\* Arc::new: an allocation apart from every live one and from the ones the
\* registry still points to
NewContext ==
    LET used == LiveContexts \cup {mbPorts[k] : k \in PortKeys}
    IN  CHOOSE c \in 1..(Cardinality(used) + 1) :
            c \notin used /\ \A b \in 1..(c - 1) : b \in used

\* Drop of an Arc of context c: when no other Arc of it is left, the context is
\* dropped and with it its SerialStream, which closes the port
Dropped(c, ctx, new) ==
    IF c \in {ctx[d] : d \in Drivers} \cup {new[d] : d \in Drivers} THEN {} ELSE {c}

\* the drivers that hold the guard of the context's TokioMutex
Holders(c) == {d \in Drivers : mbPc[d] = "polling" /\ mbCtx[d] = c}

InitMb ==
    /\ mbPc = [d \in Drivers |-> "idle"]
    /\ mbState = [d \in Drivers |-> "Disconnected"]
    /\ mbCtx = [d \in Drivers |-> NoContext]
    /\ mbNew = [d \in Drivers |-> NoContext]
    /\ mbPorts = [k \in PortKeys |-> NoContext]
    /\ mbOpen = {}

\* connect, lines 496-516: the registry is looked up under its std Mutex; a
\* live context is taken over, or the Mutex is given back and the port opened
ConnectLookup(d) ==
    /\ mbPc[d] = "idle"
    /\ mbCtx[d] = NoContext
    /\ IF Upgrade(PortKey(d)) # NoContext
       THEN /\ mbCtx' = [mbCtx EXCEPT ![d] = Upgrade(PortKey(d))]
            /\ mbState' = [mbState EXCEPT ![d] = "Connected"]
            /\ mbPc' = [mbPc EXCEPT ![d] = "ready"]
       ELSE /\ mbState' = [mbState EXCEPT ![d] = "Connecting"]
            /\ mbPc' = [mbPc EXCEPT ![d] = "opening"]
            /\ mbCtx' = mbCtx
    /\ UNCHANGED <<mbNew, mbPorts, mbOpen>>
    /\ UNCHANGED nonMbVars

\* connect, lines 518-538: SerialStream::open. Whether the operating system
\* opens a port a second time is its own choice, and any open can fail
ConnectOpen(d, opened) ==
    /\ mbPc[d] = "opening"
    /\ IF opened
       THEN /\ mbNew' = [mbNew EXCEPT ![d] = NewContext]
            /\ mbOpen' = mbOpen \cup {NewContext}
            /\ mbPc' = [mbPc EXCEPT ![d] = "registering"]
            /\ mbState' = mbState
       ELSE /\ mbState' = [mbState EXCEPT ![d] = "Failed"]
            /\ mbPc' = [mbPc EXCEPT ![d] = "idle"]
            /\ UNCHANGED <<mbNew, mbOpen>>
    /\ UNCHANGED <<mbCtx, mbPorts>>
    /\ UNCHANGED nonMbVars

\* connect, lines 540-548: the weak reference is put in the registry
ConnectRegister(d) ==
    /\ mbPc[d] = "registering"
    /\ mbPorts' = [mbPorts EXCEPT ![PortKey(d)] = mbNew[d]]
    /\ mbCtx' = [mbCtx EXCEPT ![d] = mbNew[d]]
    /\ mbNew' = [mbNew EXCEPT ![d] = NoContext]
    /\ mbState' = [mbState EXCEPT ![d] = "Connected"]
    /\ mbPc' = [mbPc EXCEPT ![d] = "ready"]
    /\ mbOpen' = mbOpen
    /\ UNCHANGED nonMbVars

\* poll, line 573: ctx_arc.lock().await returns the guard
PollLock(d) ==
    /\ mbPc[d] = "ready"
    /\ mbCtx[d] # NoContext
    /\ Holders(mbCtx[d]) = {}
    /\ mbPc' = [mbPc EXCEPT ![d] = "polling"]
    /\ UNCHANGED <<mbState, mbCtx, mbNew, mbPorts, mbOpen>>
    /\ UNCHANGED nonMbVars

\* poll, lines 576-661: set_slave and the reads are done, the guard is dropped
PollReturn(d) ==
    /\ mbPc[d] = "polling"
    /\ mbPc' = [mbPc EXCEPT ![d] = "ready"]
    /\ UNCHANGED <<mbState, mbCtx, mbNew, mbPorts, mbOpen>>
    /\ UNCHANGED nonMbVars

\* disconnect
Disconnect(d) ==
    /\ mbPc[d] = "ready"
    /\ mbCtx' = [mbCtx EXCEPT ![d] = NoContext]
    /\ mbState' = [mbState EXCEPT ![d] = "Disconnected"]
    /\ mbPc' = [mbPc EXCEPT ![d] = "idle"]
    /\ UNCHANGED <<mbNew, mbPorts>>
    /\ mbOpen' = mbOpen \ Dropped(mbCtx[d], mbCtx', mbNew')
    /\ UNCHANGED nonMbVars

\* DeviceManager::stop_all aborts the actor at one of its awaits and the
\* driver is dropped with it; start_devices makes a new driver for the device
AbortActor(d) ==
    /\ mbPc[d] \in {"ready", "polling"}
    /\ mbCtx' = [mbCtx EXCEPT ![d] = NoContext]
    /\ mbState' = [mbState EXCEPT ![d] = "Disconnected"]
    /\ mbPc' = [mbPc EXCEPT ![d] = "idle"]
    /\ UNCHANGED <<mbNew, mbPorts>>
    /\ mbOpen' = mbOpen \ Dropped(mbCtx[d], mbCtx', mbNew')
    /\ UNCHANGED nonMbVars

NextMb ==
    \/ \E d \in Drivers : ConnectLookup(d)
    \/ \E d \in Drivers, opened \in BOOLEAN : ConnectOpen(d, opened)
    \/ \E d \in Drivers : ConnectRegister(d)
    \/ \E d \in Drivers : PollLock(d)
    \/ \E d \in Drivers : PollReturn(d)
    \/ \E d \in Drivers : Disconnect(d)
    \/ \E d \in Drivers : AbortActor(d)

(***************************************************************************)
(* Part V: Tag aggregate, and its row in table tags                        *)
(***************************************************************************)
\* TagStatus and TagQuality
TagStatuses == {"Online", "Offline", "Error", "Unknown"}
TagQualities == {"Good", "Bad", "Uncertain", "Timeout"}

\* TagStatus::as_str and TagQuality::as_str
as_str(v) ==
    CASE v = "Online" -> "online" [] v = "Offline" -> "offline" [] v = "Error" -> "error"
      [] v = "Unknown" -> "unknown" [] v = "Good" -> "good" [] v = "Bad" -> "bad"
      [] v = "Uncertain" -> "uncertain" [] v = "Timeout" -> "timeout"

\* the repositories' match on the status column
ParseStatus(s) ==
    CASE s = "online" -> "Online" [] s = "offline" -> "Offline" [] s = "error" -> "Error"
      [] OTHER -> "Unknown"

\* the repositories' match on the quality column
ParseQuality(s) ==
    CASE s = "good" -> "Good" [] s = "bad" -> "Bad" [] s = "timeout" -> "Timeout"
      [] OTHER -> "Uncertain"

\* a reading of any quality counts as usable
AnyQualityUsable(quality) == TRUE

\* TagQuality::is_usable
is_usable(quality) == quality = "Good"

\* Tag::new: the runtime fields of a new tag
NewTag ==
    [status |-> "Unknown", quality |-> "Uncertain", has_value |-> FALSE,
     error_message |-> FALSE, built |-> "new"]

\* the row of a tag that was never saved
NoRow == [status |-> "none", quality |-> "none", has_value |-> FALSE, error_message |-> FALSE]

\* Tag::update_value
update_value(tag, quality) ==
    [tag EXCEPT !.has_value = TRUE,
                !.quality = quality,
                !.status = IF is_usable(quality) THEN "Online"
                           ELSE IF quality = "Timeout" THEN "Offline" ELSE "Error"]

\* a mark_offline that leaves the quality as it is
mark_offline_keeping_quality(tag) == [tag EXCEPT !.status = "Offline"]

\* Tag::mark_offline
mark_offline(tag) == [tag EXCEPT !.status = "Offline", !.quality = "Timeout"]

\* Tag::mark_error
mark_error(tag) == [tag EXCEPT !.status = "Error", !.quality = "Bad", !.error_message = TRUE]

\* Tag::set_runtime_state
set_runtime_state(tag, has_value, status, quality, error_message) ==
    [tag EXCEPT !.has_value = has_value, !.status = status, !.quality = quality,
                !.error_message = error_message]

\* TagRepository::save: the runtime columns of the row written
RowOf(tag) ==
    [status |-> as_str(tag.status), quality |-> as_str(tag.quality),
     has_value |-> tag.has_value, error_message |-> tag.error_message]

\* the repositories' conversion of a row to a Tag
TagOf(row) ==
    set_runtime_state([NewTag EXCEPT !.built = "loaded"], row.has_value,
                      ParseStatus(row.status), ParseQuality(row.quality), row.error_message)

InitTag ==
    /\ tgTag = NewTag
    /\ tgRow = NoRow

\* a reading is stored in the tag
UpdateValue ==
    /\ \E quality \in TagQualities : tgTag' = update_value(tgTag, quality)
    /\ UNCHANGED tgRow
    /\ UNCHANGED nonTagVars

MarkOffline ==
    /\ tgTag' = mark_offline(tgTag)
    /\ UNCHANGED tgRow
    /\ UNCHANGED nonTagVars

MarkError ==
    /\ tgTag' = mark_error(tgTag)
    /\ UNCHANGED tgRow
    /\ UNCHANGED nonTagVars

\* the tag is made anew from its configuration
CreateTag ==
    /\ tgTag' = NewTag
    /\ UNCHANGED tgRow
    /\ UNCHANGED nonTagVars

\* TagRepository::save
SaveTag ==
    /\ tgRow' = RowOf(tgTag)
    /\ UNCHANGED tgTag
    /\ UNCHANGED nonTagVars

\* TagRepository::find_by_id and find_by_agent
LoadTag ==
    /\ tgRow # NoRow
    /\ tgTag' = TagOf(tgRow)
    /\ UNCHANGED tgRow
    /\ UNCHANGED nonTagVars

\* the central server's UPDATE of the row on a heartbeat: online and good
\* for a tag the heartbeat lists, else offline and uncertain; a lost agent and
\* reset_all_tag_statuses write offline and uncertain too
ServerUpdate ==
    /\ tgRow # NoRow
    /\ \E listed \in BOOLEAN :
           tgRow' = [tgRow EXCEPT !.status = IF listed THEN "online" ELSE "offline",
                                  !.quality = IF listed THEN "good" ELSE "uncertain"]
    /\ UNCHANGED tgTag
    /\ UNCHANGED nonTagVars

NextTag ==
    \/ UpdateValue
    \/ MarkOffline
    \/ MarkError
    \/ CreateTag
    \/ SaveTag
    \/ LoadTag
    \/ ServerUpdate

(***************************************************************************)
(* Part VI: the config topic from the broker to ConfigManager::run_loop    *)
(***************************************************************************)
\* ConfigManager::init with its two calls the other way round
SubscribeFirst == <<"subscribe", "subscribe_messages">>

\* ConfigManager::init, lines 61-67: the calls it makes, in order
InitCalls == <<"subscribe_messages", "subscribe">>

\* a PUBLISH of the broker on the config topic. retained: the retained message
\* sent in answer to a SUBSCRIBE; session: a message the persistent session
\* (clean_session = false) kept for the client and sends after CONNACK;
\* live: a message published while the subscription stands
Publishes == {"retained", "session", "live"}

InitSub ==
    /\ subPc = 1
    /\ subRx = FALSE
    /\ subTopics = {}
    /\ subRequest = FALSE
    /\ subSubscribed = FALSE
    /\ subWire = <<>>
    /\ subQueue = <<>>
    /\ subDropped = {}
    /\ subHandled = {}
    /\ subSent = 0

\* init, the next of its calls: subscribe_messages makes the broadcast
\* receiver; subscribe notes the topic and hands a SUBSCRIBE to the event loop
InitCall ==
    /\ subPc \in DOMAIN InitCalls
    /\ subPc' = subPc + 1
    /\ IF InitCalls[subPc] = "subscribe_messages"
       THEN /\ subRx' = TRUE
            /\ UNCHANGED <<subTopics, subRequest>>
       ELSE /\ subTopics' = subTopics \cup {ConfigTopic}
            /\ subRequest' = TRUE
            /\ subRx' = subRx
    /\ UNCHANGED <<subSubscribed, subWire, subQueue, subDropped, subHandled, subSent>>
    /\ UNCHANGED nonSubVars

\* main.rs, line 384: the task of run_loop is spawned with the receiver of init
SpawnRunLoop ==
    /\ subPc = Len(InitCalls) + 1
    /\ subPc' = subPc + 1
    /\ UNCHANGED <<subRx, subTopics, subRequest, subSubscribed, subWire, subQueue,
                   subDropped, subHandled, subSent>>
    /\ UNCHANGED nonSubVars

\* the message with the given number
Message(kind, n) == [topic |-> ConfigTopic, kind |-> kind, pkid |-> n]

\* the broker takes the SUBSCRIBE, sends SUBACK and then the retained message
BrokerSuback ==
    /\ subRequest
    /\ subSent < MaxPublishes
    /\ subRequest' = FALSE
    /\ subSubscribed' = TRUE
    /\ subSent' = subSent + 1
    /\ subWire' = Append(subWire, Message("retained", subSent + 1))
    /\ UNCHANGED <<subPc, subRx, subTopics, subQueue, subDropped, subHandled>>
    /\ UNCHANGED nonSubVars

\* the broker sends a message of the persistent session, or one published now
BrokerPublish(kind) ==
    /\ subSent < MaxPublishes
    /\ kind = "session" \/ (kind = "live" /\ subSubscribed)
    /\ subSent' = subSent + 1
    /\ subWire' = Append(subWire, Message(kind, subSent + 1))
    /\ UNCHANGED <<subPc, subRx, subTopics, subRequest, subSubscribed, subQueue, subDropped,
                   subHandled>>
    /\ UNCHANGED nonSubVars

\* the event loop task, Packet::Publish: tx.send gives the message to the
\* receivers there are; without one it is dropped (lines 76-86). The channel
\* holds 250 messages and fewer are sent here, so the receiver never lags
EventLoopPublish ==
    /\ subWire # <<>>
    /\ subWire' = Tail(subWire)
    /\ IF subRx
       THEN subQueue' = Append(subQueue, Head(subWire)) /\ subDropped' = subDropped
       ELSE subDropped' = subDropped \cup {Head(subWire)} /\ subQueue' = subQueue
    /\ UNCHANGED <<subPc, subRx, subTopics, subRequest, subSubscribed, subHandled, subSent>>
    /\ UNCHANGED nonSubVars

\* the event loop task, Packet::ConnAck after a reconnect: every topic noted
\* by subscribe is subscribed again
EventLoopConnAck ==
    /\ subTopics # {}
    /\ ~subRequest
    /\ subRequest' = TRUE
    /\ UNCHANGED <<subPc, subRx, subTopics, subSubscribed, subWire, subQueue, subDropped,
                   subHandled, subSent>>
    /\ UNCHANGED nonSubVars

\* run_loop, line 80: rx.recv().await returns a message
RunLoopRecv ==
    /\ subPc = Len(InitCalls) + 2
    /\ subQueue # <<>>
    /\ subQueue' = Tail(subQueue)
    /\ subHandled' = subHandled \cup {Head(subQueue)}
    /\ UNCHANGED <<subPc, subRx, subTopics, subRequest, subSubscribed, subWire, subDropped,
                   subSent>>
    /\ UNCHANGED nonSubVars

NextSub ==
    \/ InitCall
    \/ SpawnRunLoop
    \/ BrokerSuback
    \/ \E kind \in Publishes : BrokerPublish(kind)
    \/ EventLoopPublish
    \/ EventLoopConnAck
    \/ RunLoopRecv

(***************************************************************************)
(* Part VII: DeviceManager and the DeviceActor tasks it spawns             *)
(***************************************************************************)
\* the devices of the agent's configuration, and the tags of each
Devices == {"D1", "D2"}

TagsOf == [d \in Devices |-> IF d = "D1" THEN <<"T1">> ELSE <<"T2">>]

\* the tokio tasks that run DeviceActor::run
Tasks == {"a1", "a2"}

NoTask == "none"

\* what the device answers for one tag in a poll: a string the tag's parser
\* turns into a number the validators accept, one the parser rejects, one that
\* parses to a number the validators reject, or a read error
Readings == {"7", "x", "900", "read error"}

\* ValueParser::parse of the tags' parser: Err is shown as -1
parse(raw) == CASE raw = "7" -> 7 [] raw = "900" -> 900 [] OTHER -> -1

\* ValueValidator::validate of the tags' range validator
validate(v) == v >= 0 /\ v <= 100

\* ScalingConfig::Linear of the tags, slope 2 and intercept 1
scale(v) == v * 2 + 1

\* Option::None of last_value and of last_update; JSON null
Null == "null"

\* Utc::now() in the poll under way, and what it gave in the polls before
Now == "now"

Earlier == "earlier"

\* Tag::new, the fields the actor deals with
NewActorTag == [status |-> "Unknown", quality |-> "Uncertain", last_value |-> Null,
                last_update |-> Null]

\* Tag::update_value with its value and the time of the call
tag_update_value(tag, value, quality, now) ==
    [last_value |-> value, last_update |-> now, quality |-> quality,
     status |-> IF is_usable(quality) THEN "Online"
                ELSE IF quality = "Timeout" THEN "Offline" ELSE "Error"]

\* DomainEvent::tag_value_updated
tag_value_updated(tag_id, value, quality) ==
    [type |-> "TagValueUpdated", tag_id |-> tag_id, value |-> value, quality |-> quality]

NoEvents == <<>>

\* no entry of a batch
NoEntry == [tag_id |-> "none", res |-> "none"]

\* the CancellationToken of an actor is made in DeviceActor::new and no clone
\* of it leaves the actor, so nothing cancels it
cancelled(t) == FALSE

InitActor ==
    /\ dmActors = [d \in Devices |-> NoTask]
    /\ daDevice = [t \in Tasks |-> "none"]
    /\ daPc = [t \in Tasks |-> "none"]
    /\ daConnected = [t \in Tasks |-> FALSE]
    /\ daAbort = [t \in Tasks |-> FALSE]
    /\ daTags = [t \in Tasks |-> <<>>]
    /\ daBatch = [t \in Tasks |-> <<>>]
    /\ daEvents = [t \in Tasks |-> NoEvents]
    /\ daFails = [t \in Tasks |-> 0]
    /\ daDone = [t \in Tasks |-> NoEntry]

\* the tasks no actor runs in
FreeTasks == {t \in Tasks : daPc[t] = "none"}

\* DeviceManager::start_devices: an actor is spawned for every enabled device
\* that has no handle in `actors`
start_devices(devices) ==
    LET need == {d \in devices : dmActors[d] = NoTask}
        task == CHOOSE f \in [need -> FreeTasks] : \A d, e \in need : f[d] = f[e] => d = e
        new  == {task[d] : d \in need}
        of(t) == CHOOSE d \in need : task[d] = t
    IN  /\ Cardinality(need) <= Cardinality(FreeTasks)
        /\ dmActors' = [d \in Devices |-> IF d \in need THEN task[d] ELSE dmActors[d]]
        /\ daDevice' = [t \in Tasks |-> IF t \in new THEN of(t) ELSE daDevice[t]]
        /\ daPc' = [t \in Tasks |-> IF t \in new THEN "start" ELSE daPc[t]]
        /\ daTags' = [t \in Tasks |->
                         IF t \in new
                         THEN [i \in DOMAIN TagsOf[of(t)] |-> NewActorTag]
                         ELSE daTags[t]]
        /\ UNCHANGED <<daConnected, daAbort, daBatch, daEvents, daFails, daDone>>

StartDevices ==
    /\ \E devices \in (SUBSET Devices) \ {{}} :
           /\ \E d \in devices : dmActors[d] = NoTask
           /\ start_devices(devices)
    /\ UNCHANGED nonActorVars

\* DeviceManager::stop_all: every handle is aborted and the map is emptied
StopAll ==
    /\ \E d \in Devices : dmActors[d] # NoTask
    /\ daAbort' = [t \in Tasks |-> daAbort[t] \/ \E d \in Devices : dmActors[d] = t]
    /\ dmActors' = [d \in Devices |-> NoTask]
    /\ UNCHANGED <<daDevice, daPc, daConnected, daTags, daBatch, daEvents, daFails,
                   daDone>>
    /\ UNCHANGED nonActorVars

\* the runtime drops the future of an aborted task at the await it is parked
\* at; the driver goes with it
TaskDropped(t) ==
    /\ daAbort[t]
    /\ daPc[t] # "none"
    /\ daPc' = [daPc EXCEPT ![t] = "none"]
    /\ daDevice' = [daDevice EXCEPT ![t] = "none"]
    /\ daConnected' = [daConnected EXCEPT ![t] = FALSE]
    /\ daAbort' = [daAbort EXCEPT ![t] = FALSE]
    /\ daTags' = [daTags EXCEPT ![t] = <<>>]
    /\ daBatch' = [daBatch EXCEPT ![t] = <<>>]
    /\ daEvents' = [daEvents EXCEPT ![t] = NoEvents]
    /\ daFails' = [daFails EXCEPT ![t] = 0]
    /\ daDone' = [daDone EXCEPT ![t] = NoEntry]
    /\ UNCHANGED dmActors
    /\ UNCHANGED nonActorVars

\* driver.connect() of an actor: the device decides; it refuses at most
\* MaxFails times
connect(t, ok) ==
    /\ ok \/ daFails[t] < MaxFails
    /\ daConnected' = [daConnected EXCEPT ![t] = ok]
    /\ daFails' = [daFails EXCEPT ![t] = IF ok THEN @ ELSE @ + 1]

\* run, lines 88-107: the first connect, whose failure is only logged
ActorStart(t, ok) ==
    /\ daPc[t] = "start"
    /\ ~daAbort[t]
    /\ connect(t, ok)
    /\ daPc' = [daPc EXCEPT ![t] = "select"]
    /\ UNCHANGED <<dmActors, daDevice, daAbort, daTags, daBatch, daEvents, daDone>>
    /\ UNCHANGED nonActorVars

\* run, lines 115-125: a tick; a driver that is not connected is connected
\* first, and when that fails the loop goes on to the next tick
ActorTick(t, ok) ==
    /\ daPc[t] = "select"
    /\ ~daAbort[t]
    /\ IF daConnected[t]
       THEN /\ ok
            /\ daPc' = [daPc EXCEPT ![t] = "poll"]
            /\ UNCHANGED <<daConnected, daFails>>
       ELSE /\ connect(t, ok)
            /\ daPc' = [daPc EXCEPT ![t] = IF ok THEN "poll" ELSE "select"]
    /\ daEvents' = [daEvents EXCEPT ![t] = NoEvents]
    /\ daDone' = [daDone EXCEPT ![t] = NoEntry]
    /\ UNCHANGED <<dmActors, daDevice, daAbort, daTags, daBatch>>
    /\ UNCHANGED nonActorVars

\* a tag when time has passed since its last update
earlier(tag) == [tag EXCEPT !.last_update = IF @ = Null THEN Null ELSE Earlier]

\* the batches a poll of the device of task t can return: one entry per tag
Batches(t) ==
    IF daDevice[t] = "none" THEN {}
    ELSE {b \in [DOMAIN TagsOf[daDevice[t]] -> [tag_id : {"T1", "T2"}, res : Readings]] :
             \A i \in DOMAIN b : b[i].tag_id = TagsOf[daDevice[t]][i]}

\* run, lines 126-127: driver.poll() returns a batch
ActorPollOk(t, batch) ==
    /\ daPc[t] = "poll"
    /\ ~daAbort[t]
    /\ daBatch' = [daBatch EXCEPT ![t] = batch]
    /\ daTags' = [daTags EXCEPT ![t] = [i \in DOMAIN @ |-> earlier(@[i])]]
    /\ daPc' = [daPc EXCEPT ![t] = "batch"]
    /\ UNCHANGED <<dmActors, daDevice, daConnected, daAbort, daEvents, daFails, daDone>>
    /\ UNCHANGED nonActorVars

\* run, lines 200-203: driver.poll() fails as a whole; the driver is disconnected
ActorPollErr(t) ==
    /\ daPc[t] = "poll"
    /\ ~daAbort[t]
    /\ daConnected' = [daConnected EXCEPT ![t] = FALSE]
    /\ daPc' = [daPc EXCEPT ![t] = "select"]
    /\ UNCHANGED <<dmActors, daDevice, daAbort, daTags, daBatch, daEvents, daFails,
                   daDone>>
    /\ UNCHANGED nonActorVars

\* the index of a tag among the tags of the task
TagIndex(t, tag_id) == CHOOSE i \in DOMAIN TagsOf[daDevice[t]] : TagsOf[daDevice[t]][i] = tag_id

\* a pipeline that asks no validator
UpdateWhenParsed(raw) == parse(raw) # -1

\* run, lines 144-183: the pipeline of the tag on a value read; should_update
\* and final_val
should_update(raw) == parse(raw) # -1 /\ validate(parse(raw))

final_val(raw) == scale(parse(raw))

\* run, lines 128-198: one entry of the batch. A value the pipeline lets
\* through is stored and published, a failed publish is only logged; a read
\* error is only logged
ActorEntry(t) ==
    /\ daPc[t] = "batch"
    /\ ~daAbort[t]
    /\ daBatch[t] # <<>>
    /\ LET entry == Head(daBatch[t])
           i == TagIndex(t, entry.tag_id)
       IN  IF entry.res # "read error" /\ should_update(entry.res)
           THEN /\ daTags' = [daTags EXCEPT ![t][i] =
                                 tag_update_value(@, final_val(entry.res), "Good", Now)]
                /\ daEvents' = [daEvents EXCEPT ![t] =
                                   Append(@, tag_value_updated(entry.tag_id,
                                                               final_val(entry.res), "Good"))]
           ELSE UNCHANGED <<daTags, daEvents>>
    /\ daBatch' = [daBatch EXCEPT ![t] = Tail(@)]
    /\ daDone' = [daDone EXCEPT ![t] = Head(daBatch[t])]
    /\ daPc' = [daPc EXCEPT ![t] = IF Tail(daBatch[t]) = <<>> THEN "select" ELSE "batch"]
    /\ UNCHANGED <<dmActors, daDevice, daConnected, daAbort, daFails>>
    /\ UNCHANGED nonActorVars

NextActor ==
    \/ StartDevices
    \/ StopAll
    \/ \E t \in Tasks : TaskDropped(t)
    \/ \E t \in Tasks, ok \in BOOLEAN : ActorStart(t, ok)
    \/ \E t \in Tasks, ok \in BOOLEAN : ActorTick(t, ok)
    \/ \E t \in Tasks : \E batch \in Batches(t) : ActorPollOk(t, batch)
    \/ \E t \in Tasks : ActorPollErr(t)
    \/ \E t \in Tasks : ActorEntry(t)

(***************************************************************************)
(* Part VIII: TagExecutor, connecting and reconnecting its driver          *)
(***************************************************************************)
\* what driver.read_value() gives on a tick: a value the pipeline lets
\* through, one it rejects, no data, or an error
ReadResults == {"value", "rejected", "none", "error"}

\* reconnect, lines 373-374: the seconds slept before the attempt
backoff(attempts) == Min2(Max({(2 ^ Min2(attempts, 8)) \div 2, 10}), 300)

\* TagUpdateMode of the executor's tag: the modes whose loops are
\* execute_on_change and execute_polling
UpdateModes == {"OnChange", "Polling"}

\* Tag::is_timed_out; `late` says that last_update is None or lies more than
\* timeout_ms() back
is_timed_out(mode, late) == IF mode = "OnChange" THEN FALSE ELSE late

\* no failure event published yet in the episode under way
NoEpisode == [silence |-> 0, failure |-> 0]

\* TagExecutor::new
InitExec ==
    /\ exPc = "start"
    /\ exConnected = FALSE
    /\ exTag = NewTag
    /\ exAttempts = 0
    /\ exSleep = 0
    /\ exEvent = "none"
    /\ exFails = 0
    /\ exMode = "none"
    /\ exLate = TRUE
    /\ exTicks = 0
    /\ exEpisode = NoEpisode

\* TagExecutor::connect; the device refuses at most MaxFails times. A connect
\* that succeeds ends the episode of a device failure
exec_connect(ok) ==
    /\ ok \/ exFails < MaxFails
    /\ exFails' = IF ok THEN exFails ELSE exFails + 1
    /\ exConnected' = ok
    /\ IF ok
       THEN /\ exTag' = mark_offline(exTag)
            /\ exLate' = FALSE
            /\ exAttempts' = 0
            /\ exEvent' = "TagConnected"
            /\ exEpisode' = [exEpisode EXCEPT !.failure = 0]
       ELSE UNCHANGED <<exTag, exLate, exAttempts, exEvent, exEpisode>>

\* execute, lines 82-105: the first connect; when it fails the tag is marked
\* and the loop of the tag's update mode is entered all the same
ExecStart(ok) ==
    /\ exPc = "start"
    /\ IF ok
       THEN exec_connect(TRUE)
       ELSE /\ exFails < MaxFails
            /\ exFails' = exFails + 1
            /\ exConnected' = FALSE
            /\ exTag' = mark_offline(mark_error(exTag))
            /\ UNCHANGED <<exLate, exAttempts, exEvent, exEpisode>>
    /\ \E mode \in UpdateModes : exMode' = mode
    /\ exPc' = "tick"
    /\ UNCHANGED <<exSleep, exTicks>>
    /\ UNCHANGED nonExecVars

\* time goes by: more than timeout_ms() since the tag's last update
ExecTimePasses ==
    /\ exPc # "start"
    /\ ~exLate
    /\ exLate' = TRUE
    /\ UNCHANGED <<exPc, exConnected, exTag, exAttempts, exSleep, exEvent, exFails, exMode,
                   exTicks, exEpisode>>
    /\ UNCHANGED nonExecVars

\* execute_on_change, lines 163-169, and execute_polling, lines 196-202, with
\* handle_timeout: a tick on which the tag has timed out
ExecTimeout ==
    /\ exPc = "tick"
    /\ exTag.status # "Offline"
    /\ is_timed_out(exMode, exLate)
    /\ exTag' = mark_offline(exTag)
    /\ exEvent' = "TagDisconnected"
    /\ exEpisode' = [exEpisode EXCEPT !.silence = @ + 1]
    /\ exTicks' = 1 - exTicks
    /\ UNCHANGED <<exPc, exConnected, exAttempts, exSleep, exFails, exMode, exLate>>
    /\ UNCHANGED nonExecVars

\* execute_on_change, lines 171-180, and execute_polling, lines 204-212, with
\* read_and_publish and handle_read_error: a tick on which the driver is
\* read. A driver that is not connected gives an error; an error marks the
\* tag, disconnects and goes to reconnect, which sleeps first. A value that
\* is stored ends the episode of a silence
ExecTick(read) ==
    /\ exPc = "tick"
    /\ ~(exTag.status # "Offline" /\ is_timed_out(exMode, exLate))
    /\ exConnected \/ read = "error"
    /\ IF read = "error"
       THEN /\ exTag' = mark_offline(mark_error(exTag))
            /\ exEvent' = "TagExecutorError"
            /\ exEpisode' = [exEpisode EXCEPT !.failure = @ + 1]
            /\ exConnected' = FALSE
            /\ exAttempts' = exAttempts + 1
            /\ exSleep' = backoff(exAttempts + 1)
            /\ exPc' = "backoff"
            /\ exLate' = exLate
       ELSE /\ IF read = "value"
               THEN /\ exTag' = update_value(exTag, "Good")
                    /\ exEvent' = "TagValueUpdated"
                    /\ exLate' = FALSE
                    /\ exEpisode' = [exEpisode EXCEPT !.silence = 0]
               ELSE UNCHANGED <<exTag, exEvent, exLate, exEpisode>>
            /\ exAttempts' = 0
            /\ UNCHANGED <<exConnected, exSleep, exPc>>
    /\ exTicks' = 1 - exTicks
    /\ UNCHANGED <<exFails, exMode>>
    /\ UNCHANGED nonExecVars

\* a reconnect that ends the executor when the connect fails
ReconnectOrGiveUp(ok) ==
    /\ exPc = "backoff"
    /\ exec_connect(ok)
    /\ exPc' = IF ok THEN "tick" ELSE "ended"
    /\ exSleep' = 0
    /\ UNCHANGED <<exMode, exTicks>>
    /\ UNCHANGED nonExecVars

\* reconnect, lines 383-404: the sleep is over and connect is tried; a
\* failure is logged and the loop goes on
ExecReconnect(ok) ==
    /\ exPc = "backoff"
    /\ exec_connect(ok)
    /\ exPc' = "tick"
    /\ exSleep' = 0
    /\ UNCHANGED <<exMode, exTicks>>
    /\ UNCHANGED nonExecVars

NextExec ==
    \/ \E ok \in BOOLEAN : ExecStart(ok)
    \/ ExecTimePasses
    \/ ExecTimeout
    \/ \E read \in ReadResults : ExecTick(read)
    \/ \E ok \in BOOLEAN : ExecReconnect(ok)

(***************************************************************************)
(* Part IX: RS232Connection and its ConnectionState                        *)
(***************************************************************************)
\* the RS232 drivers of the agent, one per tag executor
SerialDrivers == {"r1", "r2", "r3"}

\* RS232Config.data_bits of each driver
DataBits == [r \in SerialDrivers |-> IF r = "r3" THEN 9 ELSE 8]

\* RS232Config::to_data_bits returns Ok
to_data_bits(r) == DataBits[r] \in {5, 6, 7, 8}

\* enum ConnectionState
ConnectionStates == {"Disconnected", "Connecting", "Connected", "Reconnecting", "Failed"}

\* what port.read gives within the timeout, or that the timeout elapsed
SerialReads == {"data", "eof", "timeout", "io error"}

InitRs ==
    /\ rsState = [r \in SerialDrivers |-> "Disconnected"]
    /\ rsPort = [r \in SerialDrivers |-> FALSE]
    /\ rsReturned = [r \in SerialDrivers |-> "nothing yet"]

\* RS232Connection::connect; `opened` is whether open_native_async returns Ok
RS232Connect(r, opened) ==
    /\ IF ~to_data_bits(r)
       THEN /\ rsReturned' = [rsReturned EXCEPT ![r] = "Err(InvalidDriverConfig)"]
            /\ UNCHANGED <<rsState, rsPort>>
       ELSE IF ~opened
       THEN /\ rsState' = [rsState EXCEPT ![r] = "Failed"]
            /\ rsReturned' = [rsReturned EXCEPT ![r] = "Err(DriverError)"]
            /\ rsPort' = rsPort
       ELSE /\ rsPort' = [rsPort EXCEPT ![r] = TRUE]
            /\ rsState' = [rsState EXCEPT ![r] = "Connected"]
            /\ rsReturned' = [rsReturned EXCEPT ![r] = "Ok(())"]
    /\ UNCHANGED nonRsVars

\* RS232Connection::disconnect
RS232Disconnect(r) ==
    /\ rsPort' = [rsPort EXCEPT ![r] = FALSE]
    /\ rsState' = [rsState EXCEPT ![r] = "Disconnected"]
    /\ rsReturned' = [rsReturned EXCEPT ![r] = "Ok(())"]
    /\ UNCHANGED nonRsVars

\* RS232Connection::read_value
RS232ReadValue(r, read) ==
    /\ IF ~rsPort[r]
       THEN /\ rsReturned' = [rsReturned EXCEPT ![r] = "Err(DriverError)"]
            /\ rsState' = rsState
       ELSE IF read = "io error"
       THEN /\ rsState' = [rsState EXCEPT ![r] = "Failed"]
            /\ rsReturned' = [rsReturned EXCEPT ![r] = "Err(DriverError)"]
       ELSE /\ rsReturned' = [rsReturned EXCEPT ![r] = IF read = "data" THEN "Ok(Some)" ELSE "Ok(None)"]
            /\ rsState' = rsState
    /\ rsPort' = rsPort
    /\ UNCHANGED nonRsVars

NextRs ==
    \/ \E r \in SerialDrivers, opened \in BOOLEAN : RS232Connect(r, opened)
    \/ \E r \in SerialDrivers : RS232Disconnect(r)
    \/ \E r \in SerialDrivers, read \in SerialReads : RS232ReadValue(r, read)

(***************************************************************************)
(* Part X: PrintingActionExecutor, BatchManager and PrinterManager         *)
(***************************************************************************)
\* the tasks that call the executor: a device actor inside
\* AutomationEngine::publish, and the CommandListener
Callers == {"engine", "listener"}

\* the session_id the AccumulateData and PrintBatch actions name
Sessions == {"s1"}

\* the actions handle_event can fire, or none when no trigger matched
Actions == {"none", "PrintTicket", "AccumulateData", "PrintBatch"}

\* serde_json values: a number, an object with a numeric "value" field, a string
Num(n) == [kind |-> "Number", n |-> n]
Obj(n) == [kind |-> "Object", n |-> n]
Str == [kind |-> "String", n |-> 0]

\* the payloads of the events that fire an action
Payloads == {Num(-5), Obj(10), Str}

\* the item lists a PrintBatchManual command is left with after filter_map
ManualItems == {<<>>, <<Obj(10)>>}

\* num_val and last_num of add_item
num_val(value) == IF value.kind \in {"Number", "Object"} THEN value.n ELSE 0

\* batch_managers holds no BatchManager for the session
NoSession == [present |-> FALSE, current_batch |-> <<>>]

\* BatchManager::new
NewBatchManager == [present |-> TRUE, current_batch |-> <<>>]

\* add_item without its rule 2
add_item_keeping(current_batch, value, expired) ==
    Append(IF expired THEN <<>> ELSE current_batch, value)

\* BatchManager::add_item; `expired` is whether more than session_timeout has
\* passed since last_update
add_item(current_batch, value, expired) ==
    LET kept == IF expired THEN <<>> ELSE current_batch
        reset == /\ kept # <<>>
                 /\ num_val(kept[Len(kept)]) < 0
                 /\ num_val(value) > 0
    IN  Append(IF reset THEN <<>> ELSE kept, value)

\* take_batch that leaves the buffer as it was
take_batch_keeping(current_batch) == [batch |-> current_batch, current_batch |-> current_batch]

\* BatchManager::take_batch: the batch it returns and the buffer it leaves
take_batch(current_batch) == [batch |-> current_batch, current_batch |-> <<>>]

\* no job, and the ticket built for a unit, a batch or a manual report
NoJob == [kind |-> "none", lines |-> 0]
Job(kind, items) == [kind |-> kind, lines |-> Len(items)]

\* an entry of pxOut
Output(op, kind, items) == [op |-> op, kind |-> kind, items |-> items]

\* no call made yet
NoExecutorCall == [action |-> "none", value |-> Str, found |-> FALSE, items |-> <<>>]

\* process_batch_print that enqueues the ticket of an empty batch too
process_batch_print_always(t, items, header) ==
    /\ pxOut' = [pxOut EXCEPT ![t] = <<Output("publish", "ReportCompleted", items)>>]
    /\ pxJob' = [pxJob EXCEPT ![t] = Job(header, items)]
    /\ pxPc' = [pxPc EXCEPT ![t] = "send_job"]

\* process_batch_print up to send_job: an empty batch is skipped, any other is
\* published as ReportCompleted (a publish error is logged) and its ticket built
process_batch_print(t, items, header) ==
    IF items = <<>>
    THEN /\ pxOut' = [pxOut EXCEPT ![t] = <<>>]
         /\ UNCHANGED <<pxJob, pxPc>>
    ELSE /\ pxOut' = [pxOut EXCEPT ![t] = <<Output("publish", "ReportCompleted", items)>>]
         /\ pxJob' = [pxJob EXCEPT ![t] = Job(header, items)]
         /\ pxPc' = [pxPc EXCEPT ![t] = "send_job"]

InitPrint ==
    /\ bmBatch = [s \in Sessions |-> NoSession]
    /\ amMutex = "free"
    /\ amReload = "idle"
    /\ pxPc = [t \in Callers |-> "idle"]
    /\ pxJob = [t \in Callers |-> NoJob]
    /\ pxCall = [t \in Callers |-> NoExecutorCall]
    /\ pxOut = [t \in Callers |-> <<>>]
    /\ pqQueue = <<>>
    /\ pqSenders = TRUE
    /\ pmPc = "connect_loop"
    /\ pmNext = "recv"
    /\ pmJob = NoJob
    /\ pmConnected = FALSE
    /\ pmLast = [kind |-> "none", sends |-> 0, sent |-> FALSE]
    /\ prReachable \in BOOLEAN

\* the manager's variables, which the executor leaves alone
managerVars == <<pmPc, pmNext, pmJob, pmConnected, pmLast, prReachable>>

\* the executor's variables, which the manager leaves alone
executorVars == <<bmBatch, amMutex, amReload, pxPc, pxJob, pxCall, pxOut>>

\* AutomationEngine::handle_event takes the Mutex of the automations and
\* PrintingActionExecutor::execute runs the action that fired, up to its
\* send_job; the Mutex is held until execute returns. tokio's Mutex is fair:
\* a reload that waits for it comes first
execute(action, value, expired) ==
    /\ pqSenders
    /\ pxPc["engine"] = "idle"
    /\ amMutex = "free"
    /\ amReload = "idle"
    /\ CASE action = "none" ->
              /\ pxCall' = [pxCall EXCEPT !["engine"] = NoExecutorCall]
              /\ pxOut' = [pxOut EXCEPT !["engine"] = <<>>]
              /\ UNCHANGED <<bmBatch, pxJob, pxPc>>
         [] action = "PrintTicket" ->
              /\ pxCall' = [pxCall EXCEPT !["engine"] =
                               [action |-> action, value |-> Str, found |-> FALSE, items |-> <<>>]]
              /\ pxOut' = [pxOut EXCEPT !["engine"] = <<>>]
              /\ pxJob' = [pxJob EXCEPT !["engine"] = Job("unit", <<value>>)]
              /\ pxPc' = [pxPc EXCEPT !["engine"] = "send_job"]
              /\ bmBatch' = bmBatch
         [] action = "AccumulateData" ->
              /\ Len(add_item(bmBatch["s1"].current_batch, value, expired)) <= MaxBatch
              /\ pxCall' = [pxCall EXCEPT !["engine"] =
                               [action |-> action, value |-> value,
                                found |-> bmBatch["s1"].present,
                                items |-> bmBatch["s1"].current_batch]]
              /\ bmBatch' = [bmBatch EXCEPT !["s1"] =
                                [present |-> TRUE,
                                 current_batch |-> add_item(@.current_batch, value, expired)]]
              /\ pxOut' = [pxOut EXCEPT !["engine"] = <<>>]
              /\ UNCHANGED <<pxJob, pxPc>>
         [] action = "PrintBatch" ->
              /\ pxCall' = [pxCall EXCEPT !["engine"] =
                               [action |-> action, value |-> Str,
                                found |-> bmBatch["s1"].present,
                                items |-> bmBatch["s1"].current_batch]]
              /\ IF bmBatch["s1"].present
                 THEN /\ bmBatch' = [bmBatch EXCEPT !["s1"].current_batch =
                                        take_batch(@).current_batch]
                      /\ process_batch_print("engine",
                             take_batch(bmBatch["s1"].current_batch).batch, "batch")
                 ELSE /\ pxOut' = [pxOut EXCEPT !["engine"] = <<>>]
                      /\ UNCHANGED <<bmBatch, pxJob, pxPc>>
    /\ amMutex' = IF pxPc'["engine"] = "send_job" THEN "engine" ELSE "free"
    /\ UNCHANGED <<amReload, pqQueue, pqSenders>>
    /\ UNCHANGED managerVars
    /\ UNCHANGED nonPrintVars

\* CommandListener::handle_command on a PrintBatchManual command:
\* PrintingActionExecutor::execute_manual_batch up to its send_job
execute_manual_batch(items) ==
    /\ pqSenders
    /\ pxPc["listener"] = "idle"
    /\ pxCall' = [pxCall EXCEPT !["listener"] =
                     [action |-> "ManualBatch", value |-> Str, found |-> FALSE, items |-> items]]
    /\ process_batch_print("listener", items, "manual")
    /\ UNCHANGED <<bmBatch, amMutex, amReload, pqQueue, pqSenders>>
    /\ UNCHANGED managerVars
    /\ UNCHANGED nonPrintVars

\* send_job: print_queue.send(data).await returns once the channel has room;
\* the caller returns, and handle_event gives the Mutex back
send_job(t) ==
    /\ pxPc[t] = "send_job"
    /\ Len(pqQueue) < QueueCap
    /\ pqQueue' = Append(pqQueue, pxJob[t])
    /\ pxOut' = [pxOut EXCEPT ![t] = Append(@, Output("enqueue", pxJob[t].kind, pxCall[t].items))]
    /\ pxJob' = [pxJob EXCEPT ![t] = NoJob]
    /\ pxPc' = [pxPc EXCEPT ![t] = "idle"]
    /\ amMutex' = IF t = "engine" THEN "free" ELSE amMutex
    /\ UNCHANGED <<bmBatch, amReload, pxCall, pqSenders>>
    /\ UNCHANGED managerVars
    /\ UNCHANGED nonPrintVars

\* AutomationEngine::reload has built the new map and awaits the Mutex
ReloadLock ==
    /\ amReload = "idle"
    /\ amReload' = "lock"
    /\ UNCHANGED <<bmBatch, amMutex, pxPc, pxJob, pxCall, pxOut, pqQueue, pqSenders>>
    /\ UNCHANGED managerVars
    /\ UNCHANGED nonPrintVars

\* reload is given the Mutex, swaps the map and returns
ReloadReturn ==
    /\ amReload = "lock"
    /\ amMutex = "free"
    /\ amReload' = "idle"
    /\ UNCHANGED <<bmBatch, amMutex, pxPc, pxJob, pxCall, pxOut, pqQueue, pqSenders>>
    /\ UNCHANGED managerVars
    /\ UNCHANGED nonPrintVars

\* the executor is dropped with the engine and the listener, and with it the
\* only Sender of the channel
DropSenders ==
    /\ pqSenders
    /\ \A t \in Callers : pxPc[t] = "idle"
    /\ pqSenders' = FALSE
    /\ UNCHANGED <<pqQueue>>
    /\ UNCHANGED executorVars
    /\ UNCHANGED managerVars
    /\ UNCHANGED nonPrintVars

\* the receiving end takes the job at the head of the channel
JobReceived ==
    /\ pqQueue # <<>>
    /\ pqQueue' = Tail(pqQueue)
    /\ UNCHANGED <<pqSenders>>
    /\ UNCHANGED executorVars
    /\ UNCHANGED managerVars
    /\ UNCHANGED nonPrintVars

\* the printer starts or stops accepting connections
PrinterFlip ==
    /\ prReachable' = ~prReachable
    /\ UNCHANGED <<pmPc, pmNext, pmJob, pmConnected, pmLast, pqQueue, pqSenders>>
    /\ UNCHANGED executorVars
    /\ UNCHANGED nonPrintVars

\* connect_loop: connection.connect() returns Ok when the printer accepts the
\* connection, and the loop is left; otherwise it returns Err and the loop
\* sleeps reconnect_interval
ManagerConnect ==
    /\ pmPc = "connect_loop"
    /\ IF prReachable
       THEN /\ pmConnected' = TRUE
            /\ pmPc' = pmNext
       ELSE /\ pmPc' = "sleep"
            /\ pmConnected' = pmConnected
    /\ UNCHANGED <<pmNext, pmJob, pmLast, prReachable, pqQueue, pqSenders>>
    /\ UNCHANGED executorVars
    /\ UNCHANGED nonPrintVars

\* connect_loop: sleep(reconnect_interval) is over
ManagerWake ==
    /\ pmPc = "sleep"
    /\ pmPc' = "connect_loop"
    /\ UNCHANGED <<pmNext, pmJob, pmConnected, pmLast, prReachable, pqQueue, pqSenders>>
    /\ UNCHANGED executorVars
    /\ UNCHANGED nonPrintVars

\* run, lines 28-58: job_rx.recv() returns a job, which is sent when the
\* printer is connected and dropped when it is not, or it returns None because
\* the channel is empty and closed; `sent` is whether send_commands returns
\* Ok. NetworkPrinter::send_commands forgets its stream when the write fails
ManagerRecv(sent) ==
    /\ pmPc = "recv"
    /\ IF pqQueue = <<>>
       THEN /\ ~pqSenders
            /\ pmPc' = "done"
            /\ UNCHANGED <<pmNext, pmJob, pmConnected, pmLast, pqQueue>>
       ELSE /\ pqQueue' = Tail(pqQueue)
            /\ IF ~pmConnected
               THEN /\ pmLast' = [kind |-> Head(pqQueue).kind, sends |-> 0, sent |-> FALSE]
                    /\ pmPc' = "connect_loop"
                    /\ pmNext' = "recv"
                    /\ UNCHANGED <<pmJob, pmConnected>>
               ELSE IF sent
               THEN /\ pmLast' = [kind |-> Head(pqQueue).kind, sends |-> 1, sent |-> TRUE]
                    /\ UNCHANGED <<pmPc, pmNext, pmJob, pmConnected>>
               ELSE /\ pmConnected' = FALSE
                    /\ pmJob' = Head(pqQueue)
                    /\ pmPc' = "connect_loop"
                    /\ pmNext' = "retry"
                    /\ pmLast' = pmLast
    /\ UNCHANGED <<prReachable, pqSenders>>
    /\ UNCHANGED executorVars
    /\ UNCHANGED nonPrintVars

\* run, lines 38-45: after connect_loop the job is sent once more
ManagerRetry(sent) ==
    /\ pmPc = "retry"
    /\ pmLast' = [kind |-> pmJob.kind, sends |-> 2, sent |-> sent]
    /\ pmConnected' = sent
    /\ pmJob' = NoJob
    /\ pmPc' = "recv"
    /\ UNCHANGED <<pmNext, prReachable, pqQueue, pqSenders>>
    /\ UNCHANGED executorVars
    /\ UNCHANGED nonPrintVars

\* the executor and its callers, with the channel's receiving end
NextBatch ==
    \/ \E value \in Payloads, expired \in BOOLEAN : execute("AccumulateData", value, expired)
    \/ \E action \in Actions \ {"AccumulateData"} : execute(action, Str, FALSE)
    \/ \E items \in ManualItems : execute_manual_batch(items)
    \/ \E t \in Callers : send_job(t)
    \/ JobReceived

\* the printer manager, with an engine whose automations print unit tickets
\* and a configuration manager that reloads the engine
NextPrinter ==
    \/ execute("PrintTicket", Str, FALSE)
    \/ send_job("engine")
    \/ ReloadLock
    \/ ReloadReturn
    \/ DropSenders
    \/ PrinterFlip
    \/ ManagerConnect
    \/ ManagerWake
    \/ \E sent \in BOOLEAN : ManagerRecv(sent)
    \/ \E sent \in BOOLEAN : ManagerRetry(sent)

(***************************************************************************)
(* Part XI: CompositeEventPublisher                                        *)
(***************************************************************************)
\* CompositeEventPublisher.publishers, in the order they were registered
publishers == <<"mqtt_publisher", "automation_engine">>

InitBus ==
    /\ cpCalls = 0
    /\ cpIdx = 0
    /\ cpDelivered = [p \in 1..Len(publishers) |-> <<>>]
    /\ cpReturned = <<>>

\* a for loop that ends at the first publisher that returns an error
next_publisher_or_return(i, result) == IF result = "Err" THEN Len(publishers) + 1 ELSE i + 1

\* the for loop of publish: an error is logged and the loop goes on
next_publisher(i, result) == i + 1

\* publish(event) is called; the events are numbered in the order of the calls
CompositePublish ==
    /\ cpIdx = 0
    /\ cpCalls < MaxBusEvents
    /\ cpCalls' = cpCalls + 1
    /\ cpIdx' = 1
    /\ UNCHANGED <<cpDelivered, cpReturned>>
    /\ UNCHANGED nonBusVars

\* publisher.publish(event.clone()).await returns `result`; after the last
\* publisher publish returns Ok(())
CompositeForward(result) ==
    /\ cpIdx > 0
    /\ cpDelivered' = [cpDelivered EXCEPT ![cpIdx] = Append(@, [event |-> cpCalls, result |-> result])]
    /\ IF next_publisher(cpIdx, result) > Len(publishers)
       THEN /\ cpIdx' = 0
            /\ cpReturned' = Append(cpReturned, "Ok")
       ELSE /\ cpIdx' = next_publisher(cpIdx, result)
            /\ cpReturned' = cpReturned
    /\ cpCalls' = cpCalls
    /\ UNCHANGED nonBusVars

NextBus ==
    \/ CompositePublish
    \/ \E result \in {"Ok", "Err"} : CompositeForward(result)

(***************************************************************************)
(* Part XII: the MQTT client's broadcast channel and its two receivers     *)
(***************************************************************************)
\* the tasks that hold a receiver of subscribe_messages
Receivers == {"config_manager", "command_listener"}

InitLag ==
    /\ bcQueue = [r \in Receivers |-> <<>>]
    /\ bcLagged = [r \in Receivers |-> FALSE]
    /\ bcRunning = [r \in Receivers |-> TRUE]
    /\ bcLast = [r \in Receivers |-> "nothing yet"]
    /\ bcSent = 0

\* tokio::sync::broadcast, send with a receiver behind by the whole capacity:
\* the oldest message is overwritten and the receiver is marked as lagging
broadcast_send(queue, topic) ==
    IF Len(queue) = ChannelCap THEN Append(Tail(queue), topic) ELSE Append(queue, topic)

\* the event loop task, Packet::Publish: tx.send hands the message to every
\* receiver that still exists
BroadcastSend(topic) ==
    /\ bcSent < MaxBurst
    /\ bcSent' = bcSent + 1
    /\ bcQueue' = [r \in Receivers |->
                      IF bcRunning[r] THEN broadcast_send(bcQueue[r], topic) ELSE bcQueue[r]]
    /\ bcLagged' = [r \in Receivers |->
                       bcLagged[r] \/ (bcRunning[r] /\ Len(bcQueue[r]) = ChannelCap)]
    /\ UNCHANGED <<bcRunning, bcLast>>
    /\ UNCHANGED nonLagVars

\* rx.recv().await of a receiver: Err(Lagged) once after messages were
\* overwritten, else the oldest message kept
recv(r) == IF bcLagged[r] THEN "Lagged" ELSE Head(bcQueue[r])

\* ConfigManager::run_loop, line 80: `while let Ok(msg) = rx.recv().await`
\* ends the loop on any Err; CommandListener::start, lines 62-64, warns and
\* goes on
loop_goes_on(r, received) == received # "Lagged" \/ r = "command_listener"

\* one rx.recv().await of a receiver's loop and what the loop does with it;
\* a receiver whose loop has ended is dropped with what it had not received
Receive(r) ==
    /\ bcRunning[r]
    /\ bcLagged[r] \/ bcQueue[r] # <<>>
    /\ bcLast' = [bcLast EXCEPT ![r] = recv(r)]
    /\ bcLagged' = [bcLagged EXCEPT ![r] = FALSE]
    /\ bcRunning' = [bcRunning EXCEPT ![r] = loop_goes_on(r, recv(r))]
    /\ bcQueue' = [bcQueue EXCEPT ![r] =
                      IF ~loop_goes_on(r, recv(r)) THEN <<>>
                      ELSE IF bcLagged[r] THEN @ ELSE Tail(@)]
    /\ bcSent' = bcSent
    /\ UNCHANGED nonLagVars

NextLag ==
    \/ \E topic \in Topics : BroadcastSend(topic)
    \/ \E r \in Receivers : Receive(r)

(***************************************************************************)
(* Specifications.                                                         *)
(***************************************************************************)
Init ==
    /\ InitSF
    /\ InitAuto
    /\ InitCfg
    /\ InitMb
    /\ InitTag
    /\ InitSub
    /\ InitActor
    /\ InitExec
    /\ InitRs
    /\ InitPrint
    /\ InitBus
    /\ InitLag

SpecSF == Init /\ [][NextSF]_vars

LiveSF == Init /\ [][NextLiveSF]_vars /\ WF_vars(FlusherWake) /\ WF_vars(FlusherRow)

SpecAuto == Init /\ [][NextAuto]_vars

SpecCfg == Init /\ [][NextCfg]_vars

SpecMb == Init /\ [][NextMb]_vars

SpecTag == Init /\ [][NextTag]_vars

SpecSub == Init /\ [][NextSub]_vars

SpecActor == Init /\ [][NextActor]_vars

\* the device manager is given the one device D1 to start
StartDevice ==
    /\ dmActors["D1"] = NoTask
    /\ start_devices({"D1"})
    /\ UNCHANGED nonActorVars

\* the tag executor, and a device actor that is left running: no stop_all
NextReconnect ==
    \/ NextExec
    \/ StartDevice
    \/ \E t \in Tasks, ok \in BOOLEAN : ActorStart(t, ok)
    \/ \E t \in Tasks, ok \in BOOLEAN : ActorTick(t, ok)
    \/ \E t \in Tasks : \E batch \in Batches(t) : ActorPollOk(t, batch)
    \/ \E t \in Tasks : ActorPollErr(t)
    \/ \E t \in Tasks : ActorEntry(t)

\* the runtime runs every task that can go on, and timers fire
LiveReconnect ==
    /\ Init
    /\ [][NextReconnect]_vars
    /\ WF_vars(\E ok \in BOOLEAN : ExecStart(ok))
    /\ WF_vars(\E read \in ReadResults : ExecTick(read))
    /\ WF_vars(\E ok \in BOOLEAN : ExecReconnect(ok))
    /\ \A t \in Tasks : WF_vars(\E ok \in BOOLEAN : ActorStart(t, ok))
    /\ \A t \in Tasks : WF_vars(\E ok \in BOOLEAN : ActorTick(t, ok))
    /\ \A t \in Tasks : WF_vars(ActorPollErr(t) \/ \E batch \in Batches(t) : ActorPollOk(t, batch))
    /\ \A t \in Tasks : WF_vars(ActorEntry(t))

(***************************************************************************)
(* Properties of the store-and-forward publisher.                          *)
(***************************************************************************)
\* events are numbered in the order publish() is called, so among the events
\* that went through the buffer the smaller number was enqueued first
EnqueuedEvents ==
    {r.ev : r \in sfBuffer} \cup
    {sfBroker[i].ev : i \in {j \in DOMAIN sfBroker : sfBroker[j].via = "flush"}}

\* C1: of two events enqueued in the forward buffer, the later-enqueued one is
\* never delivered to the broker before the earlier-enqueued one has been
\* delivered, retries included.
FifoDelivery ==
    \A p \in DOMAIN sfBroker :
        sfBroker[p].via = "flush" =>
            \A e \in EnqueuedEvents :
                e < sfBroker[p].ev => \E q \in 1..(p - 1) : sfBroker[q].ev = e

BufferSettled == sfConnected /\ sfBrokerUp /\ sfDbOk

\* C2 as stated: if the client eventually stays connected and broker publishes
\* eventually succeed, every buffered event is eventually delivered and the
\* buffer ends up empty.
BufferedEventuallyDelivered ==
    <>[](sfConnected /\ sfBrokerUp) =>
        /\ \A e \in 1..MaxEvents :
               (\E r \in sfBuffer : r.ev = e) ~> Received(sfBroker, e)
        /\ <>[](sfBuffer = {})

\* C2 amended: the same, provided the queries on the buffer database
\* eventually succeed too.
BufferedEventuallyDeliveredIfDbWorks ==
    <>[]BufferSettled =>
        /\ \A e \in 1..MaxEvents :
               (\E r \in sfBuffer : r.ev = e) ~> Received(sfBroker, e)
        /\ <>[](sfBuffer = {})

\* C2 witness: an event that was buffered has been delivered by the flusher and
\* the buffer is empty again
FlushedAfterRecovery ==
    /\ sfConnected
    /\ sfBuffer = {}
    /\ \E i \in DOMAIN sfBroker : sfBroker[i].via = "flush"

PublishStep == sfNextEv' = sfNextEv + 1

\* C7 as stated: publishing an event with a wire mapping returns Ok, after
\* either handing the event to the broker or enqueueing it exactly once (and
\* without any broker send when is_connected is false).
PublishAlwaysOk ==
    [][(PublishStep /\ HasWireMapping(sfLast'.kind)) =>
        /\ sfLast'.result = "ok"
        /\ \/ sfBroker' # sfBroker /\ sfBuffer' = sfBuffer
           \/ /\ sfBroker' = sfBroker
              /\ \E r \in sfBuffer' \ sfBuffer :
                    r.ev = sfNextEv /\ sfBuffer' = sfBuffer \cup {r}
        /\ ~sfConnected => sfBroker' = sfBroker]_vars

\* C7 amended: publishing an event with a wire mapping never returns the
\* broker's publish failure. It returns Ok after either handing the event to
\* the broker or enqueueing it exactly once (without any broker send when
\* is_connected is false), or it returns the buffer's own error when that one
\* enqueue fails, and then the event is neither sent nor buffered.
PublishNeverReturnsBrokerFailure ==
    [][(PublishStep /\ HasWireMapping(sfLast'.kind)) =>
        /\ sfLast'.result \in {"ok", "buffer_error"}
        /\ sfLast'.result = "ok" =>
               \/ sfBroker' # sfBroker /\ sfBuffer' = sfBuffer
               \/ /\ sfBroker' = sfBroker
                  /\ \E r \in sfBuffer' \ sfBuffer :
                        r.ev = sfNextEv /\ sfBuffer' = sfBuffer \cup {r}
        /\ sfLast'.result = "buffer_error" =>
               ~sfDbOk /\ sfBroker' = sfBroker /\ sfBuffer' = sfBuffer
        /\ ~sfConnected => sfBroker' = sfBroker]_vars

\* C7 witness: a wire-mapped event was published while the broker publish
\* failed, the call returned Ok and the event is in the buffer
BufferedOnBrokerFailure ==
    /\ HasWireMapping(sfLast.kind)
    /\ sfLast.result = "ok"
    /\ sfConnected /\ ~sfBrokerUp
    /\ \E r \in sfBuffer : r.ev = sfNextEv - 1

\* C8: the flusher deletes a row only after that row's publish succeeded; when
\* a row's publish fails the buffer is left as it is and no later row of the
\* batch is attempted before the next cadence.
FlusherDeletesOnlyAfterPublish ==
    [][/\ \A r \in sfBuffer \ sfBuffer' :
              /\ sfPc = "flush" /\ r = Head(sfBatch)
              /\ sfBrokerUp
              /\ Received(sfBroker', r.ev)
       /\ (sfPc = "flush" /\ sfBatch' # sfBatch /\ ~sfBrokerUp) =>
              /\ sfBuffer' = sfBuffer
              /\ sfBroker' = sfBroker
              /\ sfBatch' = <<>>
              /\ sfPc' = "sleep"]_vars

\* C8 witness: a row's publish has just failed with a later row behind it, and
\* both are still in the buffer
FlushFailedRowsKept ==
    /\ sfRowResult = "failed"
    /\ sfPc = "sleep"
    /\ Cardinality(sfBuffer) >= 2
    /\ \A r \in sfBuffer : ~Received(sfBroker, r.ev)

(***************************************************************************)
(* Properties of the automation engine.                                    *)
(***************************************************************************)
\* the places <<tag id, index>> of the automations of a map
Bindings(map) == UNION {{<<t, i>> : i \in DOMAIN map[t]} : t \in DOMAIN map}

\* C3: a ConsecutiveValues trigger with count k fires exactly once per maximal
\* run of events that satisfy its comparison: on the k-th of them, and not again
\* until an event that does not satisfy it has ended the run.
FiresOncePerRun ==
    \A b \in Bindings(autoMap) :
        LET a == autoMap[b[1]][b[2]]
        IN  a.fired = IF a.run >= a.config.count THEN 1 ELSE 0

\* the rule set of a map: its automations without their counters
Rules(map) ==
    [t \in DOMAIN map |->
        [i \in DOMAIN map[t] |->
            [config |-> map[t][i].config, value_type |-> map[t][i].value_type,
             primary |-> map[t][i].primary]]]

BuiltRuleSets == {Rules(build_map(tags)) : tags \in AutoConfigs \cup {BootConfig}}

\* C9: while handle_event evaluates an event the rule set does not change, and
\* the rule set installed is always the whole rule set of one tag list: an
\* event is evaluated against the complete old or the complete new map.
EventSeesOneRuleSet ==
    [][/\ evIdx > 0 => Rules(autoMap') = Rules(autoMap)
       /\ Rules(autoMap') \in BuiltRuleSets]_vars

\* C9 witness: an event is half way through its tag's automations while a
\* reload with a different rule set waits for the mutex.
ReloadWaitsForEvent ==
    /\ evIdx = 2
    /\ rlPc = "locking"
    /\ Rules(rlNew) # Rules(autoMap)

\* C10: the step of reload that installs the new map leaves every trigger's
\* counter at 0, and a fire is always backed by `count` matching events in a
\* row seen by the present binding, so none of them predates the reload.
ReloadZeroesCounters ==
    [][/\ (rlPc = "locking" /\ rlPc' = "idle") => ~HasCounter(autoMap')
       /\ \A b \in Bindings(autoMap') :
              LET a == autoMap'[b[1]][b[2]]
              IN  a.fired > 0 => a.run >= a.config.count]_vars

\* C10 witness: a reload has replaced a map in which a counter stood above 0,
\* and an automation of the new map has fired since.
FiredAfterDiscardingReload ==
    /\ rlDiscarded
    /\ \E b \in Bindings(autoMap) : autoMap[b[1]][b[2]].fired > 0

(***************************************************************************)
(* Properties of the configuration manager.                                *)
(***************************************************************************)
\* C4: handling a config message whose payload is byte for byte the last
\* processed payload writes nothing to the repositories, stops and starts no
\* device actor, does not reload the automations and does not write
\* last_known.json: the message is acked and nothing else happens.
DuplicateConfigOnlyAcked ==
    [][(cfgHandled' = cfgHandled + 1 /\ cfgMsg'.topic = ConfigTopic
            /\ cfgMsg'.payload = cfgLast) =>
           /\ cfgLog' = [cfgLog EXCEPT !.acks = @ + 1]
           /\ UNCHANGED <<cfgLast, cfgFile, cfgVersion, cfgAuto, cfgDevRepo, cfgTagRepo,
                          cfgActors, cfgAlive>>]_vars

\* C4 witness: a configuration that started a device actor was processed once
\* and then received again; both messages were acked and one file write made.
SameConfigTwice ==
    /\ cfgMsg.duplicate
    /\ cfgMsg.payload = cfgLast
    /\ cfgActors # {}
    /\ cfgLog.acks = 2
    /\ cfgLog.file_writes = 1
    /\ cfgLog.stops = 1

\* what a configuration asks of the subsystems
ConfigOf(p) == [version |-> p.version, devices |-> p.devices, tags |-> p.tags]

\* the configurations the agent can be given: the one it boots with and the
\* ones the payloads deserialise to
Configurations == {ConfigOf(EmptyPayload)} \cup {ConfigOf(p) : p \in {q \in ConfigPayloads : Parses(q)}}

\* the automation bindings, config_version, the repositories and the running
\* actors are all those of configuration c
AllOf(c) ==
    /\ cfgAuto = c.tags
    /\ cfgVersion = c.version
    /\ cfgDevRepo = c.devices
    /\ cfgTagRepo = c.tags
    /\ cfgActors = c.devices

\* C11: once the config manager has finished handling a config message, the
\* automation bindings, config_version, the persisted devices and tags and the
\* running device actors all belong to one and the same configuration.
SubsystemsOfOneConfig == cfgAlive => \E c \in Configurations : AllOf(c)

\* a payload the configuration schema accepts: it deserialises, and its tags
\* have what convert_config_to_tag requires of them
SchemaAccepts(p) == Parses(p) /\ p.tags_ok

\* C12: a config payload that fails schema parsing aborts only that load: the
\* automation bindings, config_version, the persisted devices and tags and the
\* running actors stay as they were and the manager goes on handling messages.
RejectedConfigChangesNothing ==
    [][(cfgHandled' = cfgHandled + 1 /\ cfgMsg'.topic = ConfigTopic
            /\ ~cfgMsg'.duplicate /\ ~SchemaAccepts(cfgMsg'.payload)) =>
           /\ UNCHANGED <<cfgVersion, cfgAuto, cfgDevRepo, cfgTagRepo, cfgActors>>
           /\ cfgAlive']_vars

(***************************************************************************)
(* Properties of the shared serial ports.                                  *)
(***************************************************************************)
\* the drivers that are inside a Modbus transaction on the port of a key
Transacting(key) == {d \in Drivers : mbPc[d] = "polling" /\ PortKey(d) = key}

\* C5: at any moment at most one task holds the mutex of the driver context
\* of a normalized serial port, so the transactions of different device actors
\* on one port never overlap.
OneHolderPerPort == \A key \in PortKeys : Cardinality(Transacting(key)) <= 1

\* the contexts of the port of a key that connected drivers hold
HeldFor(key) == {mbCtx[d] : d \in {e \in Drivers : PortKey(e) = key}} \ {NoContext}

\* the contexts that some driver holds, connected or inside connect
Held == ({mbCtx[d] : d \in Drivers} \cup {mbNew[d] : d \in Drivers}) \ {NoContext}

\* C14: a shared serial port is open exactly while some driver holds a strong
\* reference to its context, and a connect that finds a live context of its
\* port takes that context instead of opening the port again.
PortOpenWhileHeldAndReused ==
    [][/\ mbOpen' = Held'
       /\ \A d \in Drivers :
              (mbPc[d] = "idle" /\ mbPc'[d] # "idle" /\ HeldFor(PortKey(d)) # {}) =>
                  mbCtx'[d] \in HeldFor(PortKey(d))]_vars

(***************************************************************************)
(* Properties of the Tag aggregate.                                        *)
(***************************************************************************)
\* C6: in every reachable state of a tag, and of the tag its stored row is
\* converted to, status Online comes with quality Good or Uncertain.
OnlineImpliesGoodOrUncertain ==
    /\ tgTag.status = "Online" => tgTag.quality \in {"Good", "Uncertain"}
    /\ tgRow # NoRow =>
           (TagOf(tgRow).status = "Online" => TagOf(tgRow).quality \in {"Good", "Uncertain"})

\* C6 witness: a tag that went Online by a reading was saved and then rebuilt
\* from its row by set_runtime_state, and is Online.
OnlineTagReloaded ==
    /\ tgTag.built = "loaded"
    /\ tgTag.status = "Online"
    /\ tgTag.has_value
    /\ tgRow.status = "online"

Elements(q) == {q[i] : i \in DOMAIN q}

StoppedActorsAreGone ==
    \A t \in Tasks : daAbort[t] => daPc[t] = "none" /\ ~daConnected[t]

\* C16: the run loop of an actor ends only when its cancellation token is
\* cancelled.
LoopEndsOnlyWhenCancelled ==
    [][\A t \in Tasks : (daPc[t] # "none" /\ daPc'[t] = "none") => cancelled(t)]_vars

\* the actor of task t goes through the entry at the head of its batch
GoesThroughEntry(t) ==
    /\ daPc[t] = "batch"
    /\ daPc'[t] \in {"batch", "select"}
    /\ daBatch[t] # <<>>
    /\ daBatch'[t] = Tail(daBatch[t])

\* C18: for every (tag_id, Err) entry of a poll batch the actor sets the tag to
\* status Error with quality Bad and publishes one TagValueUpdated event with
\* a null value and quality Bad.
ReadErrorMarksTagAndPublishes ==
    [][\A t \in Tasks :
          (GoesThroughEntry(t) /\ Head(daBatch[t]).res = "read error") =>
              LET tag_id == Head(daBatch[t]).tag_id
                  tag == daTags'[t][TagIndex(t, tag_id)]
              IN  /\ tag.status = "Error"
                  /\ tag.quality = "Bad"
                  /\ daEvents'[t] = Append(daEvents[t],
                                            tag_value_updated(tag_id, Null, "Bad"))]_vars

\* a value read that the parser or a validator of the pipeline rejects
Rejected(res) == res # "read error" /\ (parse(res) = -1 \/ ~validate(parse(res)))

\* C19: when the pipeline rejects a raw value, the tag's last_value,
\* last_update, status and quality stay as they are and no event is published
\* for the reading.
RejectedValueChangesNothing ==
    [][\A t \in Tasks :
          (GoesThroughEntry(t) /\ Rejected(Head(daBatch[t]).res)) =>
              /\ daTags'[t] = daTags[t]
              /\ daEvents'[t] = daEvents[t]]_vars

\* C19 witness: an actor has just gone through a rejected value of a tag that
\* holds an earlier value.
RejectedAfterValue ==
    \E t \in Tasks :
        /\ daDone[t] # NoEntry
        /\ Rejected(daDone[t].res)
        /\ daTags[t][TagIndex(t, daDone[t].tag_id)].status = "Online"
        /\ daTags[t][TagIndex(t, daDone[t].tag_id)].last_update = Earlier

(***************************************************************************)
(* Properties of reconnecting.                                             *)
(***************************************************************************)
\* C17: when the driver's connect fails a finite number of times, at the start
\* or after a failure at run time, and then succeeds, the executor and the
\* actor become connected again and go back to reading and publishing, with
\* nobody stepping in.
ReconnectsAndResumes ==
    /\ ~exConnected ~> (exConnected /\ exPc = "tick" /\ exEvent = "TagConnected")
    /\ \A t \in Tasks :
           (daPc[t] # "none" /\ ~daConnected[t]) ~> (daConnected[t] /\ daPc[t] = "poll")

\* C17 witness: executor and actor are connected after every refusal the
\* device had for them, the executor having lost its connection at run time,
\* and the actor has published a value again.
ConnectedAfterRefusals ==
    /\ exConnected /\ exFails = MaxFails /\ exTag.error_message
    /\ \E t \in Tasks : daConnected[t] /\ daFails[t] = MaxFails /\ daEvents[t] # <<>>

(***************************************************************************)
(* Properties of Part IX.                                                  *)
(***************************************************************************)
SpecRs == Init /\ [][NextRs]_vars

\* to_connecting and to_connected of ConnectionState: the states a driver may
\* be in just before it becomes `to`
AllowedFrom(to) ==
    CASE to = "Connecting" -> {"Disconnected", "Failed"}
      [] to = "Connected" -> {"Connecting", "Reconnecting"}
      [] OTHER -> ConnectionStates

\* C21: whatever connect, disconnect and read_value calls are made on a driver,
\* failed connects included, its connection state becomes Connecting only from
\* Disconnected or Failed, and Connected only from Connecting or Reconnecting.
ConnectionStateTransitionsEnforced ==
    [][\A r \in SerialDrivers :
          rsState'[r] # rsState[r] => rsState[r] \in AllowedFrom(rsState'[r])]_vars

(***************************************************************************)
(* Properties of Part X.                                                   *)
(***************************************************************************)
SpecBatch == Init /\ [][NextBatch]_vars

SpecPrinter == Init /\ [][NextPrinter]_vars

\* the scheduler runs every task that can take a step. Nothing makes the
\* printer reachable, an event arrive or the agent shut down
LivePrint ==
    /\ Init
    /\ [][NextPrinter]_vars
    /\ WF_vars(send_job("engine"))
    /\ WF_vars(ReloadReturn)
    /\ WF_vars(ManagerConnect)
    /\ WF_vars(ManagerWake)
    /\ WF_vars(\E sent \in BOOLEAN : ManagerRecv(sent))
    /\ WF_vars(\E sent \in BOOLEAN : ManagerRetry(sent))

\* the engine's last call was `action` and has returned
Returned(action) == pxCall["engine"].action = action /\ pxPc["engine"] = "idle"

\* C22 as stated: a PrintBatch for a session that exists takes the batch,
\* publishes exactly one ReportCompleted event with the taken items and then
\* enqueues exactly one batch ticket; for a missing session it publishes and
\* enqueues nothing.
PrintBatchPublishesThenEnqueues ==
    Returned("PrintBatch") =>
        IF pxCall["engine"].found
        THEN pxOut["engine"] = <<Output("publish", "ReportCompleted", pxCall["engine"].items),
                                 Output("enqueue", "batch", pxCall["engine"].items)>>
        ELSE pxOut["engine"] = <<>>

\* C22, amended: a PrintBatch for a session that exists takes the batch, which
\* leaves the session empty; when the taken batch has an item it publishes
\* exactly one ReportCompleted event with the taken items and then enqueues
\* exactly one batch ticket; when the taken batch is empty, or the session is
\* missing, it publishes and enqueues nothing.
PrintBatchOfItemsPublishesThenEnqueues ==
    Returned("PrintBatch") =>
        /\ pxCall["engine"].found => bmBatch["s1"].current_batch = <<>>
        /\ IF pxCall["engine"].found /\ pxCall["engine"].items # <<>>
           THEN pxOut["engine"] = <<Output("publish", "ReportCompleted", pxCall["engine"].items),
                                    Output("enqueue", "batch", pxCall["engine"].items)>>
           ELSE pxOut["engine"] = <<>>

\* a PrintBatch took a batch of two items and has returned
PrintedBatchOfTwo ==
    /\ Returned("PrintBatch")
    /\ pxCall["engine"].found
    /\ Len(pxCall["engine"].items) = 2
    /\ Len(pxOut["engine"]) = 2

\* C23 as stated: every manual batch command publishes a ReportCompleted event
\* for the operator-supplied items before the print job is enqueued.
ManualBatchAlwaysPublishes ==
    pxCall["listener"].action = "ManualBatch" =>
        /\ pxOut["listener"] # <<>>
        /\ pxOut["listener"][1] = Output("publish", "ReportCompleted", pxCall["listener"].items)

\* C23, amended: every manual batch command with at least one item publishes
\* a ReportCompleted event for the operator-supplied items before its print
\* job is enqueued; a command left with no item publishes and enqueues nothing.
ManualBatchOfItemsPublishesFirst ==
    pxCall["listener"].action = "ManualBatch" =>
        IF pxCall["listener"].items = <<>>
        THEN pxOut["listener"] = <<>> /\ pxPc["listener"] = "idle"
        ELSE /\ pxOut["listener"][1] = Output("publish", "ReportCompleted", pxCall["listener"].items)
             /\ pxPc["listener"] = "send_job" => Len(pxOut["listener"]) = 1
             /\ pxPc["listener"] = "idle" =>
                    /\ Len(pxOut["listener"]) = 2
                    /\ pxOut["listener"][2] = Output("enqueue", "manual", pxCall["listener"].items)

\* a manual batch with an item has published and enqueued
ManualBatchPrinted ==
    /\ pxCall["listener"].action = "ManualBatch"
    /\ pxCall["listener"].items # <<>>
    /\ pxPc["listener"] = "idle"
    /\ Len(pxOut["listener"]) = 2

\* the engine's last call added `value` to a batch whose last item was negative
NegativeThenPositive ==
    /\ pxCall["engine"].action = "AccumulateData"
    /\ pxCall["engine"].items # <<>>
    /\ num_val(pxCall["engine"].items[Len(pxCall["engine"].items)]) < 0
    /\ num_val(pxCall["engine"].value) > 0

\* C24: when the last item of a batch session reads below zero and the next
\* reading added is above zero, the session is cleared before the new item is
\* pushed: the batch holds the new item only.
NegativeToPositiveResets ==
    NegativeThenPositive => bmBatch["s1"].current_batch = <<pxCall["engine"].value>>

\* a positive reading was added to a batch of two that ended with a negative one
ResetBatchOfTwo ==
    /\ NegativeThenPositive
    /\ Len(pxCall["engine"].items) = 2
    /\ Len(bmBatch["s1"].current_batch) = 1

\* C25 as stated: every job the printer manager receives is either sent
\* successfully or dropped only after its first send and exactly one retry have
\* both failed, and no job is sent more than twice.
EveryJobSentOrRetriedOnce ==
    pmLast.kind # "none" =>
        /\ pmLast.sends <= 2
        /\ pmLast.sent \/ pmLast.sends = 2

\* C26 as stated: while the printer is unreachable the channel keeps accepting
\* jobs: a sender's enqueue eventually completes.
EnqueueEventuallyCompletes ==
    (pxPc["engine"] = "send_job") ~> (pxPc["engine"] = "idle")

\* C27 as stated: once every sender of the channel is dropped, the printer
\* manager eventually leaves its loop, whatever the state of the printer.
ManagerEndsWhenSendersDropped ==
    (~pqSenders) ~> (pmPc = "done")

\* C30 as stated: an unreachable printer never blocks the data plane for good:
\* the Mutex of the automations is always given back, so that every event
\* publish and every reload eventually completes.
DataPlaneNeverBlocked ==
    /\ (amMutex = "engine") ~> (amMutex = "free")
    /\ (amReload = "lock") ~> (amReload = "idle")

(***************************************************************************)
(* Properties of Part XI.                                                  *)
(***************************************************************************)
SpecBus == Init /\ [][NextBus]_vars

\* the number of times publisher p was handed event e
Handed(p, e) == Cardinality({k \in 1..Len(cpDelivered[p]) : cpDelivered[p][k].event = e})

\* C28: the composite event bus hands each published event to every registered
\* publisher exactly once, also when an earlier publisher returned an error,
\* and itself returns Ok.
EveryPublisherHandedEachEventOnce ==
    /\ Len(cpReturned) = IF cpIdx = 0 THEN cpCalls ELSE cpCalls - 1
    /\ \A e \in 1..Len(cpReturned) :
          /\ cpReturned[e] = "Ok"
          /\ \A p \in 1..Len(publishers) : Handed(p, e) = 1

\* a call returned after its first publisher had returned an error
ReturnedAfterAnError ==
    /\ Len(cpReturned) = 1
    /\ cpDelivered[1][1].result = "Err"
    /\ Handed(Len(publishers), 1) = 1

(***************************************************************************)
(* Order of delivery across an offline period (Part I).                    *)
(***************************************************************************)
\* C29 as stated: events reach the broker in the order the agent published
\* them, also across an offline period: while the forward buffer still holds
\* undelivered events, a newly published event is not delivered to the broker
\* ahead of them.
PublishedOrderAcrossOffline ==
    \A p \in DOMAIN sfBroker :
        sfBroker[p].via = "direct" =>
            \A e \in EnqueuedEvents :
                e < sfBroker[p].ev => \E q \in 1..(p - 1) : sfBroker[q].ev = e

(***************************************************************************)
(* Concurrent connects on one serial port (Part IV).                       *)
(***************************************************************************)
\* the contexts opened for the port of a key that a driver holds or is about
\* to register
OpenedFor(key) ==
    ({mbCtx[d] : d \in {e \in Drivers : PortKey(e) = key}} \cup
     {mbNew[d] : d \in {e \in Drivers : PortKey(e) = key}}) \ {NoContext}

\* C31: when two drivers configured for one serial port connect concurrently,
\* at most one context is opened and registered for the port key, and both
\* drivers end up sharing that one context.
OneContextPerPortKey == \A key \in PortKeys : Cardinality(OpenedFor(key)) <= 1

(***************************************************************************)
(* Order of a tag's events (Part VII).                                     *)
(***************************************************************************)
\* C32: for every tag, no TagValueUpdated event is published before a
\* TagConnected event of that tag has been published. (An actor publishes
\* only where it goes through a batch entry, so the events of its earlier
\* ticks are of the same kinds as those of this tick.)
TagConnectedBeforeValues ==
    \A t \in Tasks : \A i \in DOMAIN daEvents[t] :
        daEvents[t][i].type = "TagValueUpdated" =>
            \E j \in 1..(i - 1) :
                /\ daEvents[t][j].type = "TagConnected"
                /\ daEvents[t][j].tag_id = daEvents[t][i].tag_id

(***************************************************************************)
(* Properties of the tag executor's timeouts and failure events.           *)
(***************************************************************************)
SpecExecutor == Init /\ [][NextExec]_vars

\* the interval of the loop fires and the sleep of reconnect ends
LiveExecutor ==
    /\ SpecExecutor
    /\ WF_vars(\E ok \in BOOLEAN : ExecStart(ok))
    /\ WF_vars(ExecTimeout)
    /\ WF_vars(\E read \in ReadResults : ExecTick(read))
    /\ WF_vars(\E ok \in BOOLEAN : ExecReconnect(ok))

\* C33: the tick that handles a tag's timeout leaves the tag Offline with
\* quality Timeout and leaves the driver's connection as it was: no disconnect
\* and no reconnect.
TimeoutKeepsConnection ==
    [][exEpisode'.silence > exEpisode.silence =>
          /\ exTag'.status = "Offline"
          /\ exTag'.quality = "Timeout"
          /\ exConnected' = exConnected
          /\ exPc' = "tick"
          /\ exAttempts' = exAttempts]_vars

\* C33 witness: a tag that had a value timed out on a connected driver, and
\* the driver is still connected.
TimedOutWhileConnected ==
    /\ exEvent = "TagDisconnected"
    /\ exTag.has_value /\ exTag.status = "Offline" /\ exTag.quality = "Timeout"
    /\ exConnected /\ exPc = "tick"

\* C34: in one episode of a failure, a silence that lasts or a device failure
\* that lasts, one TagDisconnected or TagExecutorError event is published and
\* no more.
OneEventPerEpisode == exEpisode.silence <= 1 /\ exEpisode.failure <= 1

\* C35: a tag in OnChange mode that is Online and has had no data for more than
\* timeout_ms is marked Offline, unless data comes in.
SilentOnChangeTagGoesOffline ==
    (exMode = "OnChange" /\ exTag.status = "Online" /\ exLate)
        ~> (exTag.status = "Offline" \/ ~exLate)

\* the same of a tag in Polling mode
SilentPollingTagGoesOffline ==
    (exMode = "Polling" /\ exTag.status = "Online" /\ exLate)
        ~> (exTag.status = "Offline" \/ ~exLate)

(***************************************************************************)
(* Tags in PollingOnChange mode under a device actor (Part VII).           *)
(***************************************************************************)
\* TagUpdateMode::PollingOnChange { interval_ms, change_threshold } of the
\* tags T1 and T2
change_threshold == 1

Abs(x) == IF x < 0 THEN -x ELSE x

\* C36: a TagValueUpdated event is published for a polled value of a
\* PollingOnChange tag only if the value is the tag's first or differs from
\* the value published last by change_threshold or more. (An actor publishes
\* every value it stores, so the tag's last_value is the value published last.)
EmittedOnlyOnSignificantChange ==
    [][\A t \in Tasks :
          (daPc[t] = "batch" /\ Len(daEvents'[t]) = Len(daEvents[t]) + 1) =>
              LET e == daEvents'[t][Len(daEvents'[t])]
                  tag == daTags[t][TagIndex(t, e.tag_id)]
              IN  \/ tag.last_update = Null
                  \/ Abs(e.value - tag.last_value) >= change_threshold]_vars

(***************************************************************************)
(* Disabled tags under a device actor (Part VII).                          *)
(***************************************************************************)
\* Tag::is_enabled of the tags start_devices is given: convert_config_to_tag
\* and the tag repository call Tag::disable on a tag whose configuration has
\* enabled = false; here that is tag T2
is_enabled(tag_id) == tag_id # "T2"

\* C37: a tag with enabled = false is not polled, no TagValueUpdated event is
\* published for it, and its value, status and quality stay as they were.
DisabledTagsAreLeftAlone ==
    \A t \in Tasks :
        /\ \A i \in DOMAIN daEvents[t] : is_enabled(daEvents[t][i].tag_id)
        /\ daDevice[t] # "none" =>
               \A i \in DOMAIN daTags[t] :
                   ~is_enabled(TagsOf[daDevice[t]][i]) => daTags[t][i] = NewActorTag

(***************************************************************************)
(* Properties of Part XII.                                                 *)
(***************************************************************************)
SpecLag == Init /\ [][NextLag]_vars

\* C38: the run loop of the config manager does not stop because its receiver
\* lags behind the broadcast channel.
ConfigRunLoopSurvivesLag == bcRunning["config_manager"]

\* the same of the command listener
CommandListenerSurvivesLag == bcRunning["command_listener"]

(***************************************************************************)
(* The last-known configuration file (Part III).                           *)
(***************************************************************************)
\* C39: config/last_known.json holds a payload that parses as an AgentConfig:
\* once the file holds a configuration, a remote payload that fails to parse
\* is never written over it.
OnlyParsedPayloadsAreSaved ==
    [][(cfgFile.json /\ cfgFile.schema_ok /\ cfgLog'.file_writes > cfgLog.file_writes)
           => Parses(Sanitize(cfgMsg'.payload))]_vars

(***************************************************************************)
(* Accumulating and printing a session's batch while manual batches are    *)
(* printed (Part X).                                                       *)
(***************************************************************************)
\* C40: no accumulated item is reported twice. A PrintBatch that reports
\* publishes and prints just the items the session held, which are the items
\* accumulated since the take or reset before, and leaves the session empty;
\* a manual batch, printed at the same time, takes nothing from the session.
EachItemInOneReport ==
    [][/\ (pxPc["engine"] = "idle" /\ pxPc'["engine"] = "send_job"
              /\ pxCall'["engine"].action = "PrintBatch") =>
           /\ pxJob'["engine"] = Job("batch", bmBatch["s1"].current_batch)
           /\ pxOut'["engine"] =
                  <<Output("publish", "ReportCompleted", bmBatch["s1"].current_batch)>>
           /\ bmBatch'["s1"].current_batch = <<>>
       /\ bmBatch' # bmBatch =>
           /\ pxPc["engine"] = "idle"
           /\ pxCall'["engine"].action \in {"AccumulateData", "PrintBatch"}
           /\ pxCall'["listener"] = pxCall["listener"]]_vars

\* C40 witness: a PrintBatch has reported the two items of the session and left
\* it empty while a manual batch of the command listener is on its way to the
\* print queue.
BatchReportedBesideManualBatch ==
    /\ pxCall["engine"].action = "PrintBatch"
    /\ Len(pxCall["engine"].items) = 2
    /\ pxOut["engine"] # <<>>
    /\ bmBatch["s1"].current_batch = <<>>
    /\ pxPc["listener"] = "send_job"

====
